---- MODULE Spec2Model ----
(***************************************************************************)
(* A model of the canonical-URL validator: URLProcessor (url_processor.py) *)
(* with the parts of urllib.parse, str and BeautifulSoup it relies on.     *)
(* Python strings are TLA+ strings; None is the empty tuple <<>> and a     *)
(* present optional value x is the one-element tuple <<x>>.                *)
(***************************************************************************)
EXTENDS Integers, Sequences, FiniteSets, TLC

(***************************************************************************)
(* str: the string methods the code uses.  Positions are 1-based; a search *)
(* that finds nothing gives 0 (Python: -1).                                *)
(***************************************************************************)
Ch(s, i) == SubSeq(s, i, i)

\* The least element of a non-empty set of numbers.
Least(S) == CHOOSE n \in S : \A m \in S : n <= m

\* s.find(c, start): the first position >= start holding character c.
Find(s, c, start) ==
    LET hits == {n \in start..Len(s) : Ch(s, n) = c}
    IN  IF hits = {} THEN 0 ELSE Least(hits)

RECURSIVE RFind(_, _, _)
\* s.rfind(c): the last position <= from holding character c.
RFind(s, c, from) ==
    IF from < 1 THEN 0
    ELSE IF Ch(s, from) = c THEN from
    ELSE RFind(s, c, from - 1)

\* c in s
Contains(s, c) == Find(s, c, 1) > 0

\* s[:n]: the first n characters, or all of s when it is shorter.
Prefix(s, n) == SubSeq(s, 1, IF n > Len(s) THEN Len(s) ELSE n)

\* s[:i] and s[i:] with i a 1-based position: the text before / from position i.
Before(s, i) == SubSeq(s, 1, i - 1)
From(s, i) == SubSeq(s, i, Len(s))

UpperChars == "ABCDEFGHIJKLMNOPQRSTUVWXYZ"
LowerChars == "abcdefghijklmnopqrstuvwxyz"
DigitChars == "0123456789"

\* The characters of s, as a set.
CharsOf(s) == {Ch(s, n) : n \in 1..Len(s)}

UpperSet == CharsOf(UpperChars)
LowerOf == [c \in UpperSet |-> Ch(LowerChars, Find(UpperChars, c, 1))]

\* c.lower() for one character.
LowerCh(c) == IF c \in UpperSet THEN LowerOf[c] ELSE c

RECURSIVE lower(_)
\* str.lower()
lower(s) == IF s = "" THEN "" ELSE LowerCh(Head(s)) \o lower(Tail(s))

\* The number of characters at the start, and at the end, of s that are in chars.
Leading(s, chars) ==
    CHOOSE k \in 0..Len(s) :
        /\ k = Len(s) \/ ~Contains(chars, Ch(s, k + 1))
        /\ \A j \in 1..k : Contains(chars, Ch(s, j))
Trailing(s, chars) ==
    CHOOSE k \in 0..Len(s) :
        /\ k = Len(s) \/ ~Contains(chars, Ch(s, Len(s) - k))
        /\ \A j \in 1..k : Contains(chars, Ch(s, Len(s) + 1 - j))

\* str.rstrip(chars): drop every trailing character that is in chars.  The
\* string is bound to t so that it is evaluated once.
rstrip(s, chars) ==
    CHOOSE r \in {SubSeq(t, 1, Len(t) - Trailing(t, chars)) : t \in {s}} : TRUE

\* str.lstrip(chars)
lstrip(s, chars) ==
    CHOOSE r \in {SubSeq(t, Leading(t, chars) + 1, Len(t)) : t \in {s}} : TRUE

\* The whitespace str.strip() removes (of the characters the model uses).
Whitespace == " \t\n\r"

\* str.strip()
strip(s) == lstrip(rstrip(s, Whitespace), Whitespace)

RECURSIVE split(_, _)
\* str.split(sep) for a one-character separator: always at least one piece.
split(s, sep) ==
    LET i == Find(s, sep, 1)
    IN  IF i = 0 THEN <<s>>
        ELSE <<Before(s, i)>> \o split(From(s, i + 1), sep)

RECURSIVE join(_, _)
\* sep.join(parts)
join(sep, parts) ==
    IF parts = <<>> THEN ""
    ELSE IF Len(parts) = 1 THEN parts[1]
    ELSE parts[1] \o sep \o join(sep, Tail(parts))

\* every character of s is in the set chars
AllIn(s, chars) == \A n \in 1..Len(s) : Ch(s, n) \in chars

(***************************************************************************)
(* urllib.parse (CPython 3.11), as url_processor.py imports it.            *)
(***************************************************************************)
uses_relative == {"", "ftp", "http", "gopher", "nntp", "imap", "wais", "file",
                  "https", "shttp", "mms", "prospero", "rtsp", "rtsps", "rtspu",
                  "sftp", "svn", "svn+ssh", "ws", "wss"}
uses_netloc == {"", "ftp", "http", "gopher", "nntp", "telnet", "imap", "wais",
                "file", "mms", "https", "shttp", "snews", "prospero", "rtsp",
                "rtsps", "rtspu", "rsync", "svn", "svn+ssh", "sftp", "nfs",
                "git", "git+ssh", "ws", "wss"}
uses_params == {"", "ftp", "hdl", "prospero", "http", "imap", "https", "shttp",
                "rtsp", "rtsps", "rtspu", "sip", "sips", "mms", "sftp", "tel"}
scheme_chars == CharsOf(LowerChars \o UpperChars \o DigitChars \o "+-.")
ascii_letters == CharsOf(LowerChars \o UpperChars)

\* The characters urlsplit strips from the left of a URL, and those it removes
\* everywhere (of the characters the model uses).
C0ControlOrSpace == " \t\n\r"
UnsafeUrlBytes == "\t\r\n"

RECURSIVE RemoveChars(_, _)
\* for b in chars: s = s.replace(b, "")
RemoveChars(s, chars) ==
    IF s = "" THEN ""
    ELSE IF Contains(chars, Head(s)) THEN RemoveChars(Tail(s), chars)
    ELSE Head(s) \o RemoveChars(Tail(s), chars)

\* min over the positions found (0: not found), Len(s)+1 when none is.
FirstDelim(s, start) ==
    LET ps == {Find(s, "/", start), Find(s, "?", start), Find(s, "#", start)} \ {0}
    IN  IF ps = {} THEN Len(s) + 1
        ELSE CHOOSE p \in ps : \A q \in ps : p <= q

\* urlsplit's scheme step: <<scheme, rest>>.
SplitScheme(url, scheme) ==
    LET i == Find(url, ":", 1)
    IN  IF /\ i > 1
           /\ Head(url) \in ascii_letters
           /\ AllIn(Before(url, i), scheme_chars)
        THEN <<lower(Before(url, i)), From(url, i + 1)>>
        ELSE <<scheme, url>>

\* urlsplit's netloc step (_splitnetloc(url, 2)): <<netloc, rest>>.
SplitNetloc(url) ==
    IF Prefix(url, 2) = "//"
    THEN LET d == FirstDelim(url, 3)
         IN  <<SubSeq(url, 3, d - 1), From(url, d)>>
    ELSE <<"", url>>

\* raise ValueError("Invalid IPv6 URL"): one bracket without the other.
InvalidIPv6(netloc) == Contains(netloc, "[") /= Contains(netloc, "]")

\* url.split(c, 1) when c is in url, else <<url, "">>.
SplitOnce(url, c) ==
    LET i == Find(url, c, 1)
    IN  IF i = 0 THEN <<url, "">> ELSE <<Before(url, i), From(url, i + 1)>>

\* urlsplit's result: SplitResult(scheme, netloc, url, query, fragment), or the
\* ValueError it raises.  sq is <<url, query>>.
SplitResult(scheme, netloc, sq, fragment) ==
    [scheme |-> scheme, netloc |-> netloc, path |-> sq[1], query |-> sq[2],
     fragment |-> fragment,
     raises |-> IF InvalidIPv6(netloc) THEN <<"Invalid IPv6 URL">> ELSE <<>>]

\* urlsplit from `if '?' in url` on.  sf is <<url, fragment>>.
urlsplit_query(scheme, netloc, sf) ==
    SplitResult(scheme, netloc, SplitOnce(sf[1], "?"), sf[2])

\* urlsplit from `if allow_fragments and '#' in url` on.  sn is <<netloc, url>>.
urlsplit_fragment(scheme, sn) == urlsplit_query(scheme, sn[1], SplitOnce(sn[2], "#"))

\* urlsplit from `if url[:2] == '//'` on.  ss is <<scheme, url>>.
urlsplit_netloc(ss) == urlsplit_fragment(ss[1], SplitNetloc(ss[2]))

\* urlsplit(url, scheme)
urlsplit(url, scheme) ==
    urlsplit_netloc(
        SplitScheme(RemoveChars(lstrip(url, C0ControlOrSpace), UnsafeUrlBytes), scheme))

\* _splitparams(url): <<path, params>>.
splitparams(url) ==
    LET i == IF Contains(url, "/")
             THEN Find(url, ";", RFind(url, "/", Len(url)))
             ELSE Find(url, ";", 1)
    IN  IF i = 0 THEN <<url, "">> ELSE <<Before(url, i), From(url, i + 1)>>

\* urlparse's result: ParseResult(scheme, netloc, path, params, query, fragment).
\* pp is <<path, params>>.
ParseResult(r, pp) ==
    [scheme |-> r.scheme, netloc |-> r.netloc, path |-> pp[1], params |-> pp[2],
     query |-> r.query, fragment |-> r.fragment, raises |-> r.raises]

\* urlparse, given urlsplit's result.
urlparse_split(r) ==
    ParseResult(r, IF r.scheme \in uses_params /\ Contains(r.path, ";")
                   THEN splitparams(r.path) ELSE <<r.path, "">>)

\* urlparse(url, scheme)
urlparse(url, scheme) == urlparse_split(urlsplit(url, scheme))

\* urlunsplit's four steps.
AddNetloc(scheme, netloc, url) ==
    IF netloc /= "" \/ (scheme /= "" /\ scheme \in uses_netloc /\ Prefix(url, 2) /= "//")
    THEN "//" \o netloc \o (IF url /= "" /\ Prefix(url, 1) /= "/" THEN "/" \o url ELSE url)
    ELSE url
AddScheme(scheme, url) == IF scheme /= "" THEN scheme \o ":" \o url ELSE url
AddQuery(url, query) == IF query /= "" THEN url \o "?" \o query ELSE url
AddFragment(url, fragment) == IF fragment /= "" THEN url \o "#" \o fragment ELSE url

\* urlunsplit((scheme, netloc, url, query, fragment))
urlunsplit(scheme, netloc, url, query, fragment) ==
    AddFragment(AddQuery(AddScheme(scheme, AddNetloc(scheme, netloc, url)), query),
                fragment)

\* urlunparse((scheme, netloc, url, params, query, fragment))
urlunparse(scheme, netloc, url, params, query, fragment) ==
    urlunsplit(scheme, netloc,
               IF params /= "" THEN url \o ";" \o params ELSE url,
               query, fragment)

\* segments[1:-1] = filter(None, segments[1:-1])
FilterMiddle(segs) ==
    IF Len(segs) <= 2 THEN segs
    ELSE <<segs[1]>> \o SelectSeq(SubSeq(segs, 2, Len(segs) - 1), LAMBDA x : x /= "")
         \o <<segs[Len(segs)]>>

RECURSIVE ResolveDots(_, _)
\* urljoin's loop over the segments: ".." pops (ignored when empty), "." is skipped.
ResolveDots(segs, resolved) ==
    IF segs = <<>> THEN resolved
    ELSE IF Head(segs) = ".."
         THEN ResolveDots(Tail(segs),
                          IF resolved = <<>> THEN <<>>
                          ELSE SubSeq(resolved, 1, Len(resolved) - 1))
    ELSE IF Head(segs) = "." THEN ResolveDots(Tail(segs), resolved)
    ELSE ResolveDots(Tail(segs), Append(resolved, Head(segs)))

\* base_parts: the base path's pieces without the last one unless it is empty.
BaseParts(parts) ==
    IF parts[Len(parts)] /= "" THEN SubSeq(parts, 1, Len(parts) - 1) ELSE parts

\* segments
Segments(bpath, path) ==
    IF Prefix(path, 1) = "/" THEN split(path, "/")
    ELSE FilterMiddle(BaseParts(split(bpath, "/")) \o split(path, "/"))

\* resolved_path, with the '' appended when the last segment is '.' or '..'.
ResolvedPath(segments) ==
    IF segments[Len(segments)] \in {".", ".."}
    THEN Append(ResolveDots(segments, <<>>), "")
    ELSE ResolveDots(segments, <<>>)

\* '/'.join(resolved_path) or '/'
JoinedPath(joined) == IF joined = "" THEN "/" ELSE joined

\* urljoin, given both parsed URLs (b: the base, u: the reference).
urljoin_parsed(b, u, url) ==
    IF u.scheme /= b.scheme \/ u.scheme \notin uses_relative THEN url
    ELSE IF u.scheme \in uses_netloc /\ u.netloc /= ""
         THEN urlunparse(u.scheme, u.netloc, u.path, u.params, u.query, u.fragment)
    ELSE IF u.path = "" /\ u.params = ""
         THEN urlunparse(u.scheme,
                         IF u.scheme \in uses_netloc THEN b.netloc ELSE u.netloc,
                         b.path, b.params,
                         IF u.query = "" THEN b.query ELSE u.query, u.fragment)
    ELSE urlunparse(u.scheme,
                    IF u.scheme \in uses_netloc THEN b.netloc ELSE u.netloc,
                    JoinedPath(join("/", ResolvedPath(Segments(b.path, u.path)))),
                    u.params, u.query, u.fragment)

\* urljoin, given the parsed base.
urljoin_base(b, url) == urljoin_parsed(b, urlparse(url, b.scheme), url)

\* The exception urljoin's second urlparse raises, given the parsed base.
urljoin_base_raises(b, url) ==
    IF b.raises /= <<>> THEN b.raises ELSE urlparse(url, b.scheme).raises

\* The exception urljoin(base, url) raises (<<>>: none): that of either urlparse.
urljoin_raises(base, url) ==
    IF base = "" \/ url = "" THEN <<>>
    ELSE urljoin_base_raises(urlparse(base, ""), url)

\* urljoin(base, url), when it raises nothing.
urljoin(base, url) ==
    IF base = "" THEN url
    ELSE IF url = "" THEN base
    ELSE urljoin_base(urlparse(base, ""), url)

(***************************************************************************)
(* The state: a URLProcessor, one call of process_urls on it, and the      *)
(* network it talks to.                                                    *)
(***************************************************************************)
VARIABLES
    concurrent_requests,    \* self.concurrent_requests: the pool's max_workers
    max_retries,            \* self.max_retries
    force_https,            \* self.force_https
    remove_trailing_slash,  \* self.remove_trailing_slash
    ignore_query_params,    \* self.ignore_query_params
    web,                    \* what session.get may return or raise in this run
    urls,                   \* process_urls' argument
    progress_callback,      \* whether process_urls was given a callback
    task,                   \* per submitted future: the worker's position and result
    pc,                     \* the caller's position in process_urls
    yielded,                \* the futures as_completed has yielded so far
    i,                      \* the loop variable of `for i, future in enumerate(...)`
    cur,                    \* the future of the current loop iteration (0: none)
    results,                \* the list process_urls builds and returns
    calls,                  \* the invocations of progress_callback, in order
    given,                  \* a URL handed to _normalize_url, by its components
    normalized,             \* _normalize_url's results, each applied to the one before
    sitemaps,               \* what requests.get returns or raises for a sitemap URL
    selected_sitemaps,      \* st.session_state.selected_sitemaps, by their "url"
    url_source,             \* the method chosen: app.extract_urls' first argument
    manual_urls,            \* the lines entered by hand: app.extract_urls' second argument
    extracted_urls,         \* st.session_state.extracted_urls
    app,                    \* app.extract_urls' position: "idle", "for", "done", "except";
                            \* get_sitemap_info's: "head", "try"
    sel,                    \* the position of `for sitemap in selected_sitemaps`
    all_urls,               \* app.extract_urls' local set
    st_error,               \* the messages handed to st.error, in order
    processed_sitemaps,     \* SitemapParser.processed_sitemaps
    stack,                  \* the active calls of SitemapParser.extract_urls, outermost first
    fetched,                \* the sitemap URLs handed to requests.get, in order
    raised,                 \* the exception on its way up the stack (None: none)
    returned,               \* what the outermost extract_urls calls returned, in order
    document,               \* a response handed to extract_urls' choice of a parser
    chosen,                 \* what that choice gave (None: not made yet)
    infos,                  \* what a client's get_sitemap_info calls returned, in order
    domain,                 \* discover_sitemaps' argument
    robots,                 \* what requests.get(robots_url) returns or raises
    heads,                  \* what requests.head returns or raises for a sitemap URL
    disc,                   \* discover_sitemaps' position
    base_url,               \* discover_sitemaps' base_url
    directives,             \* the matches _parse_robots_content has still to handle
    common,                 \* the position in common_paths
    candidates,             \* the list `sitemaps` being built
    probed,                 \* the HEAD requests so far, in order
    discovered,             \* what discover_sitemaps returned (None: nothing yet)
    discover_raised         \* the exception discover_sitemaps raised (None: none)

\* The extraction step: app.extract_urls and its SitemapParser.
source == <<url_source, manual_urls>>
format == <<document, chosen>>
extraction == <<source, format, infos, sitemaps, selected_sitemaps, extracted_urls, app, sel, all_urls,
                st_error, processed_sitemaps, stack, fetched, raised, returned>>

\* The URLProcessor, its call of process_urls and the pages' network.
processor == <<concurrent_requests, max_retries, force_https, remove_trailing_slash,
               ignore_query_params, web, urls, progress_callback, task, pc, yielded,
               i, cur, results, calls>>

\* The discovery step: RobotsParser.discover_sitemaps.
discovery == <<domain, robots, heads, disc, base_url, directives, common, candidates,
               probed, discovered, discover_raised>>

\* The state outside process_urls.
rest == <<given, normalized, extraction, discovery>>

config == <<concurrent_requests, max_retries, force_https, remove_trailing_slash,
            ignore_query_params>>
vars == <<config, web, urls, progress_callback, task, pc, yielded, i, cur, results,
          calls, rest>>

None == <<>>
Some(x) == <<x>>

(***************************************************************************)
(* URLProcessor._normalize_url                                             *)
(***************************************************************************)
\* The exception _normalize_url(url) raises (None: none): urlparse's.
_normalize_url_raises(url) == IF url = "" THEN None ELSE urlparse(url, "").raises

\* normalize_parsed dropping one trailing slash, not all of them.
normalize_parsed_strip_one(parsed) ==
    urlunparse(IF force_https /\ parsed.scheme = "http" THEN "https" ELSE parsed.scheme,
               lower(parsed.netloc),
               IF /\ remove_trailing_slash
                  /\ parsed.path /= "" /\ Ch(parsed.path, Len(parsed.path)) = "/"
                  /\ parsed.path /= "/"
               THEN Before(parsed.path, Len(parsed.path)) ELSE parsed.path,
               parsed.params,
               IF ignore_query_params THEN "" ELSE parsed.query,
               "")

\* normalize_parsed lower-casing the path along with the netloc.
normalize_parsed_lower_path(parsed) ==
    urlunparse(IF force_https /\ parsed.scheme = "http" THEN "https" ELSE parsed.scheme,
               lower(parsed.netloc),
               lower(IF /\ remove_trailing_slash
                        /\ parsed.path /= "" /\ Ch(parsed.path, Len(parsed.path)) = "/"
                        /\ parsed.path /= "/"
                     THEN rstrip(parsed.path, "/") ELSE parsed.path),
               parsed.params,
               IF ignore_query_params THEN "" ELSE parsed.query,
               "")

\* normalize_parsed keeping the query whatever ignore_query_params says.
normalize_parsed_keep_query(parsed) ==
    urlunparse(IF force_https /\ parsed.scheme = "http" THEN "https" ELSE parsed.scheme,
               lower(parsed.netloc),
               IF /\ remove_trailing_slash
                  /\ parsed.path /= "" /\ Ch(parsed.path, Len(parsed.path)) = "/"
                  /\ parsed.path /= "/"
               THEN rstrip(parsed.path, "/") ELSE parsed.path,
               parsed.params,
               parsed.query,
               "")

\* _normalize_url from `scheme = parsed.scheme` on.
normalize_parsed(parsed) ==
    urlunparse(IF force_https /\ parsed.scheme = "http" THEN "https" ELSE parsed.scheme,
               lower(parsed.netloc),
               IF /\ remove_trailing_slash
                  /\ parsed.path /= "" /\ Ch(parsed.path, Len(parsed.path)) = "/"
                  /\ parsed.path /= "/"
               THEN rstrip(parsed.path, "/") ELSE parsed.path,
               parsed.params,
               IF ignore_query_params THEN "" ELSE parsed.query,
               "")

_normalize_url(url) == IF url = "" THEN url ELSE normalize_parsed(urlparse(url, ""))

(***************************************************************************)
(* The result dictionaries.  Only the Match/Mismatch record has the key    *)
(* 'Final URL'.                                                            *)
(***************************************************************************)
\* Record with the key 'Final URL' in every dictionary.
RecordWithFinalUrl(url, canonical, status, error, response_time, http_status) ==
    ("URL" :> url) @@ ("Final URL" :> None) @@ ("Canonical URL" :> canonical) @@
    ("Status" :> status) @@ ("Error" :> error) @@
    ("Response Time" :> response_time) @@ ("HTTP Status" :> http_status)

Record(url, canonical, status, error, response_time, http_status) ==
    ("URL" :> url) @@ ("Canonical URL" :> canonical) @@ ("Status" :> status) @@
    ("Error" :> error) @@ ("Response Time" :> response_time) @@
    ("HTTP Status" :> http_status)

(***************************************************************************)
(* BeautifulSoup: a parsed page is the sequence of its tags, in document   *)
(* order; a tag has a name, a rel attribute and an href attribute (None:   *)
(* absent).  parse_error is the exception the parser raises, if any.       *)
(***************************************************************************)
\* soup.find_all('link', rel='canonical'): rel is a multi-valued attribute, and
\* matches when one of its values, or the whole of it, is 'canonical'.
find_all(content) ==
    SelectSeq(content.tags,
              LAMBDA t : /\ t.name = "link"
                         /\ \/ t.rel = "canonical"
                            \/ \E n \in 1..Len(split(t.rel, " ")) :
                                   split(t.rel, " ")[n] = "canonical")

\* tag.get('href', '')
get_href(tag) == IF tag.href = None THEN "" ELSE tag.href[1]

(***************************************************************************)
(* URLProcessor._analyze_canonical_tag                                     *)
(***************************************************************************)
\* ParsingFailed without the response's status and time.
ParsingFailedUnpopulated(original_url, response, response_time, msg) ==
    Record(original_url, None, "Error", Some("HTML parsing failed: " \o msg), None, None)

ParsingFailed(original_url, response, response_time, msg) ==
    Record(original_url, None, "Error", Some("HTML parsing failed: " \o msg),
           Some(response_time), Some(response.status_code))

\* Compared(...) is defined below; this is the comparison made without regard
\* to letter case.
ComparedIgnoringCase(original_url, response, response_time, canonical_url, norm_original, norm_canonical) ==
    ("Final URL" :> response.url) @@
    Record(original_url, Some(canonical_url),
           IF lower(norm_original) = lower(norm_canonical) THEN "Match" ELSE "Mismatch",
           IF lower(norm_original) = lower(norm_canonical) THEN None
           ELSE Some("Canonical URL does not match page URL"),
           Some(response_time), Some(response.status_code))

\* The comparison of the two normalised URLs, and the record returned.
Compared(original_url, response, response_time, canonical_url, norm_original, norm_canonical) ==
    ("Final URL" :> response.url) @@
    Record(original_url, Some(canonical_url),
           IF norm_original = norm_canonical THEN "Match" ELSE "Mismatch",
           IF norm_original = norm_canonical THEN None
           ELSE Some("Canonical URL does not match page URL"),
           Some(response_time), Some(response.status_code))

\* From `normalized_original = self._normalize_url(response.url)` on.
AnalyzeUrl(original_url, response, response_time, canonical_url) ==
    IF _normalize_url_raises(response.url) /= None
    THEN ParsingFailed(original_url, response, response_time,
                       _normalize_url_raises(response.url)[1])
    ELSE IF _normalize_url_raises(canonical_url) /= None
    THEN ParsingFailed(original_url, response, response_time,
                       _normalize_url_raises(canonical_url)[1])
    ELSE Compared(original_url, response, response_time, canonical_url,
                  _normalize_url(response.url), _normalize_url(canonical_url))

\* AnalyzeHref resolving the href against the requested URL, and comparing with it.
AnalyzeHrefFromRequested(original_url, response, response_time, canonical_href) ==
    IF canonical_href = ""
    THEN Record(original_url, None, "Empty", Some("Canonical tag is empty"),
                Some(response_time), Some(response.status_code))
    ELSE IF urljoin_raises(original_url, canonical_href) /= None
    THEN ParsingFailed(original_url, response, response_time,
                       urljoin_raises(original_url, canonical_href)[1])
    ELSE AnalyzeUrl(original_url, [response EXCEPT !.url = original_url],
                    response_time, urljoin(original_url, canonical_href))

\* From `if not canonical_href` on.
AnalyzeHref(original_url, response, response_time, canonical_href) ==
    IF canonical_href = ""
    THEN Record(original_url, None, "Empty", Some("Canonical tag is empty"),
                Some(response_time), Some(response.status_code))
    ELSE IF urljoin_raises(response.url, canonical_href) /= None
    THEN ParsingFailed(original_url, response, response_time,
                       urljoin_raises(response.url, canonical_href)[1])
    ELSE AnalyzeUrl(original_url, response, response_time,
                    urljoin(response.url, canonical_href))

\* AnalyzeTags counting the distinct hrefs instead of the tags: canonical tags
\* that all declare the same href are analysed as one.
AnalyzeTagsDistinctHrefs(original_url, response, response_time, canonical_tags) ==
    IF canonical_tags = <<>>
    THEN Record(original_url, None, "Missing", Some("No canonical tag found"),
                Some(response_time), Some(response.status_code))
    ELSE IF Cardinality({get_href(canonical_tags[n]) : n \in 1..Len(canonical_tags)}) > 1
    THEN Record(original_url,
                Some(join(", ", [n \in 1..Len(canonical_tags) |->
                                    get_href(canonical_tags[n])])),
                "Multiple",
                Some("Multiple canonical tags found: " \o ToString(Len(canonical_tags))),
                Some(response_time), Some(response.status_code))
    ELSE AnalyzeHref(original_url, response, response_time,
                     strip(get_href(canonical_tags[1])))

\* From `if not canonical_tags` on.
AnalyzeTags(original_url, response, response_time, canonical_tags) ==
    IF canonical_tags = <<>>
    THEN Record(original_url, None, "Missing", Some("No canonical tag found"),
                Some(response_time), Some(response.status_code))
    ELSE IF Len(canonical_tags) > 1
    THEN Record(original_url,
                Some(join(", ", [n \in 1..Len(canonical_tags) |->
                                    get_href(canonical_tags[n])])),
                "Multiple",
                Some("Multiple canonical tags found: " \o ToString(Len(canonical_tags))),
                Some(response_time), Some(response.status_code))
    ELSE AnalyzeHref(original_url, response, response_time,
                     strip(get_href(canonical_tags[1])))

_analyze_canonical_tag(original_url, response, response_time) ==
    IF response.content.parse_error /= None
    THEN ParsingFailed(original_url, response, response_time,
                       response.content.parse_error[1])
    ELSE AnalyzeTags(original_url, response, response_time,
                     find_all(response.content))

(***************************************************************************)
(* The inputs of a run.                                                    *)
(***************************************************************************)
MaxUrls == 2        \* the longest URL list given to process_urls
MaxRetries == 2     \* the largest max_retries
MaxWorkers == 2     \* the largest concurrent_requests

Link(rel, href) == [name |-> "link", rel |-> rel, href |-> href]
Page(tags) == [parse_error |-> None, tags |-> tags]
Unparsable(msg) == [parse_error |-> Some(msg), tags |-> <<>>]
Response(status_code, url, content) ==
    [status_code |-> status_code, url |-> url, content |-> content]

\* What session.get may do in a run: return one of `responses`, raise a
\* requests.RequestException with one of the messages `failures`, or raise another
\* exception with one of the messages `errors`.
Web(responses, failures, errors) ==
    [responses |-> responses, failures |-> failures, errors |-> errors]

RequestedUrls == {"http://example.com/old", "https://example.com/p?x=1"}

\* A small web for the runs over several URLs: a page without a canonical tag, an
\* error status, one kind of transport failure and one other exception.
SmallWeb ==
    Web({ Response(200, "https://example.com/p?x=1", Page(<<>>)),
          Response(404, "https://example.com/p?x=1", Page(<<>>)) },
        {"timed out"}, {"unexpected"})

\* The pages of the larger web, by what they hold: no link at all, only another
\* kind of link, one canonical link (href absent, blank, absolute, padded with
\* blanks, differing in case, relative, not a URL), several canonical links.
Pages ==
    { Page(<<>>),
      Page(<<Link("stylesheet", Some("/p"))>>),
      Page(<<Link("canonical", None)>>),
      Page(<<Link("canonical", Some("  "))>>),
      Page(<<Link("canonical", Some("https://example.com/p"))>>),
      Page(<<Link("canonical", Some(" https://example.com/p?x=1 "))>>),
      Page(<<Link("canonical", Some("https://example.com/P"))>>),
      Page(<<Link("canonical", Some("https://example.com/p?X=1"))>>),
      Page(<<Link("stylesheet", Some("/s.css")),
             Link("canonical", Some("https://example.com/Page"))>>),
      Page(<<Link("canonical", Some("/p#top"))>>),
      Page(<<Link("canonical", Some("old"))>>),
      Page(<<Link("canonical", Some("http://example.com/old"))>>),
      Page(<<Link("canonical", Some("http://[::1"))>>),
      Page(<<Link("canonical", Some("/p")), Link("canonical", Some("/p"))>>),
      Page(<<Link("canonical", None), Link("canonical", Some(""))>>),
      Page(<<Link("canonical", Some("/p")), Link("alternate canonical", Some("/q"))>>),
      Unparsable("malformed markup") }

\* The URLs a request may end at, after redirects.
FinalUrls == {"http://example.com/old", "https://example.com/p?x=1",
              "https://Example.com/Page/"}

\* The statuses other than 200 a response may have.
ErrorStatuses == {204, 404, 500}

\* The larger web, for the runs over one URL.
LargeWeb ==
    Web({Response(200, url, page) : url \in FinalUrls, page \in Pages}
          \cup {Response(code, "https://example.com/p?x=1", Page(<<>>)) :
                    code \in ErrorStatuses},
        {"timed out", "connection refused"}, {"unexpected"})

\* The pages of the web for the runs that retry: one for each outcome of the
\* analysis of "https://example.com/p?x=1" under the default flags (Missing, Empty,
\* Multiple, Match, Mismatch, Error from the parser, Error from urljoin).
RetryPages ==
    { Page(<<>>),
      Page(<<Link("canonical", None)>>),
      Page(<<Link("canonical", Some("/p")), Link("canonical", Some("/p"))>>),
      Page(<<Link("canonical", Some(" https://example.com/p?x=1 "))>>),
      Page(<<Link("canonical", Some("https://example.com/p"))>>),
      Page(<<Link("canonical", Some("http://[::1"))>>),
      Unparsable("malformed markup") }

\* The web for the runs over one URL that retry.
RetryWeb ==
    Web({Response(200, "https://example.com/p?x=1", page) : page \in RetryPages}
          \cup {Response(code, "https://example.com/p?x=1", Page(<<>>)) :
                    code \in ErrorStatuses},
        {"timed out", "connection refused"}, {"unexpected"})

RECURSIVE SeqsUpTo(_, _)
\* The sequences over S of length at most n.
SeqsUpTo(S, n) ==
    IF n = 0 THEN {<<>>}
    ELSE LET shorter == SeqsUpTo(S, n - 1)
         IN  shorter \cup {Append(q, x) : q \in shorter, x \in S}

(***************************************************************************)
(* A future of the pool and the worker running it.                         *)
(*   state     "pending" (queued), "running" (about to call session.get),  *)
(*             "sleeping" (in time.sleep(1)), "done" (the future is set)   *)
(*   attempt   the loop variable of `for attempt in range(max_retries)`    *)
(*   elapsed   time.time() - start_time, in seconds of backoff slept       *)
(*   trace     what the task did: "get", then how the get ended            *)
(*             ("response", "RequestException", "Exception"), "sleep"      *)
(*   failures  the messages of the transport failures caught, in order     *)
(*   response  the response of the last get that returned one              *)
(*   result    future.result(): the returned dictionary (None: not set)    *)
(*   exception future.exception(): the message of the escaped exception    *)
(***************************************************************************)
Futures == 1..Len(urls)

NewTask ==
    [state |-> "pending", attempt |-> 0, elapsed |-> 0, trace |-> <<>>,
     failures |-> <<>>, response |-> None, result |-> None, exception |-> None]

\* The workers that hold a pool slot.
Active == {k \in Futures : task[k].state \in {"running", "sleeping"}}

TypeOK ==
    /\ concurrent_requests \in 1..MaxWorkers
    /\ max_retries \in 1..MaxRetries
    /\ {force_https, remove_trailing_slash, ignore_query_params} \subseteq BOOLEAN
    /\ progress_callback \in BOOLEAN
    /\ Len(urls) <= MaxUrls
    /\ DOMAIN task = Futures
    /\ pc \in {"as_completed", "callback", "returned"}
    /\ yielded \subseteq Futures
    /\ i \in 0..Len(urls)
    /\ cur \in 0..Len(urls)

\* A URL by its components; query and fragment are None when the URL has no
\* "?" or "#".
Url(scheme, userinfo, host, port, path, query, fragment) ==
    [scheme |-> scheme, userinfo |-> userinfo, host |-> host, port |-> port,
     path |-> path, query |-> query, fragment |-> fragment]

\* No URL was handed to _normalize_url on its own.
NothingNormalized ==
    /\ given = Url("", "", "", "", "", None, None)
    /\ normalized = <<>>

\* The session as init_session_state leaves it; no extraction was started.
NothingExtracted ==
    /\ url_source = "From Website Sitemaps"
    /\ manual_urls = <<>>
    /\ sitemaps = <<>>
    /\ selected_sitemaps = <<>>
    /\ extracted_urls = <<>>
    /\ app = "idle"
    /\ sel = 0
    /\ all_urls = {}
    /\ st_error = <<>>
    /\ processed_sitemaps = {}
    /\ stack = <<>>
    /\ fetched = <<>>
    /\ raised = None
    /\ returned = <<>>
    /\ document = <<>>
    /\ chosen = None
    /\ infos = <<>>

\* discover_sitemaps was not called.
NothingDiscovered ==
    /\ domain = ""
    /\ robots = <<>>
    /\ heads = <<>>
    /\ disc = "idle"
    /\ base_url = ""
    /\ directives = <<>>
    /\ common = 0
    /\ candidates = <<>>
    /\ probed = <<>>
    /\ discovered = None
    /\ discover_raised = None

\* URLProcessor(...) constructed, process_urls(urls, cb) called, every URL submitted.
InitRun(urlLists, theWeb, workers) ==
    /\ NothingNormalized
    /\ NothingExtracted
    /\ NothingDiscovered
    /\ concurrent_requests \in workers
    /\ max_retries \in 1..MaxRetries
    /\ web = theWeb
    /\ urls \in urlLists
    /\ task = [k \in 1..Len(urls) |-> NewTask]
    /\ pc = "as_completed"
    /\ yielded = {}
    /\ i = 0
    /\ cur = 0
    /\ results = <<>>
    /\ calls = <<>>

\* The constructor's defaults for the normalisation flags.
Init ==
    /\ InitRun(SeqsUpTo(RequestedUrls, MaxUrls), SmallWeb, 1..MaxWorkers)
    /\ progress_callback = TRUE
    /\ force_https = TRUE
    /\ remove_trailing_slash = TRUE
    /\ ignore_query_params = FALSE

(***************************************************************************)
(* ThreadPoolExecutor: a worker thread takes the oldest queued work item;  *)
(* at most max_workers threads exist.                                      *)
(***************************************************************************)
\* `for attempt in range(self.max_retries)`: the next pass of the loop, or, the
\* range exhausted, the end of the function, which returns None.
LoopNext(t, attempt) ==
    IF attempt < max_retries
    THEN [t EXCEPT !.state = "running", !.attempt = attempt]
    ELSE [t EXCEPT !.state = "done", !.result = Some(None)]

\* StartTask with a thread for every work item, however many are running.
StartTaskUnbounded(k) ==
    /\ pc /= "returned"
    /\ task[k].state = "pending"
    /\ \A j \in Futures : j < k => task[j].state /= "pending"
    /\ task' = [task EXCEPT ![k] = LoopNext(task[k], 0)]
    /\ UNCHANGED <<rest, config, web, urls, progress_callback, pc, yielded, i, cur,
                   results, calls>>

StartTask(k) ==
    /\ pc /= "returned"
    /\ task[k].state = "pending"
    /\ \A j \in Futures : j < k => task[j].state /= "pending"
    /\ Cardinality(Active) < concurrent_requests
    /\ task' = [task EXCEPT ![k] = LoopNext(task[k], 0)]
    /\ UNCHANGED <<rest, config, web, urls, progress_callback, pc, yielded, i, cur,
                   results, calls>>

(***************************************************************************)
(* URLProcessor._process_single_url: one pass of the attempt loop, from    *)
(* session.get to the return or to the start of the backoff sleep.         *)
(***************************************************************************)
Returned(t, events, result) ==
    [t EXCEPT !.state = "done", !.trace = t.trace \o events, !.result = Some(result)]

\* GetOk reporting the transport failures that preceded the successful attempt in
\* the record's 'Error' field.
GetOkLeakFailure(k) ==
    /\ task[k].state = "running"
    /\ \E response \in web.responses :
        /\ response.status_code = 200
        /\ LET t == [task[k] EXCEPT !.response = Some(response)]
               result == _analyze_canonical_tag(urls[k], response, task[k].elapsed)
           IN  task' = [task EXCEPT ![k] =
                   Returned(t, <<"get", "response">>,
                            IF t.failures = <<>> THEN result
                            ELSE [result EXCEPT !["Error"] =
                                      Some("Retried after: " \o t.failures[1])])]
    /\ UNCHANGED <<rest, config, web, urls, progress_callback, pc, yielded, i, cur,
                   results, calls>>

\* GetOk going on to the next attempt when the analysis does not yield Match.
GetOkRetryUnlessMatch(k) ==
    /\ task[k].state = "running"
    /\ \E response \in web.responses :
        /\ response.status_code = 200
        /\ LET t == [task[k] EXCEPT !.response = Some(response)]
               result == _analyze_canonical_tag(urls[k], response, task[k].elapsed)
           IN  task' = [task EXCEPT ![k] =
                   IF result["Status"] /= "Match" /\ t.attempt < max_retries - 1
                   THEN [t EXCEPT !.state = "sleeping",
                                  !.trace = @ \o <<"get", "response", "sleep">>]
                   ELSE Returned(t, <<"get", "response">>, result)]
    /\ UNCHANGED <<rest, config, web, urls, progress_callback, pc, yielded, i, cur,
                   results, calls>>

\* session.get returned a response with status 200.
GetOk(k) ==
    /\ task[k].state = "running"
    /\ \E response \in web.responses :
        /\ response.status_code = 200
        /\ task' = [task EXCEPT ![k] =
                Returned([task[k] EXCEPT !.response = Some(response)],
                         <<"get", "response">>,
                         _analyze_canonical_tag(urls[k], response, task[k].elapsed))]
    /\ UNCHANGED <<rest, config, web, urls, progress_callback, pc, yielded, i, cur,
                   results, calls>>

\* GetHttpError treating the status like a transport failure: it sleeps and
\* tries again while attempts remain.
GetHttpErrorRetry(k) ==
    /\ task[k].state = "running"
    /\ \E response \in web.responses :
        /\ response.status_code /= 200
        /\ LET t == [task[k] EXCEPT !.response = Some(response)]
           IN  task' = [task EXCEPT ![k] =
                   IF t.attempt < max_retries - 1
                   THEN [t EXCEPT !.state = "sleeping",
                                  !.trace = @ \o <<"get", "response", "sleep">>]
                   ELSE Returned(t, <<"get", "response">>,
                                 Record(urls[k], None, "Error",
                                        Some("HTTP " \o ToString(response.status_code)),
                                        Some(t.elapsed), Some(response.status_code)))]
    /\ UNCHANGED <<rest, config, web, urls, progress_callback, pc, yielded, i, cur,
                   results, calls>>

\* GetHttpError with the worker appending its record to results itself.
GetHttpErrorAppending(k) ==
    /\ task[k].state = "running"
    /\ \E response \in web.responses :
        /\ response.status_code /= 200
        /\ task' = [task EXCEPT ![k] =
                Returned([task[k] EXCEPT !.response = Some(response)],
                         <<"get", "response">>,
                         Record(urls[k], None, "Error",
                                Some("HTTP " \o ToString(response.status_code)),
                                Some(task[k].elapsed), Some(response.status_code)))]
        /\ results' = Append(results, task'[k].result[1])
    /\ UNCHANGED <<rest, config, web, urls, progress_callback, pc, yielded, i, cur, calls>>

\* session.get returned a response with another status.
GetHttpError(k) ==
    /\ task[k].state = "running"
    /\ \E response \in web.responses :
        /\ response.status_code /= 200
        /\ task' = [task EXCEPT ![k] =
                Returned([task[k] EXCEPT !.response = Some(response)],
                         <<"get", "response">>,
                         Record(urls[k], None, "Error",
                                Some("HTTP " \o ToString(response.status_code)),
                                Some(task[k].elapsed), Some(response.status_code)))]
    /\ UNCHANGED <<rest, config, web, urls, progress_callback, pc, yielded, i, cur,
                   results, calls>>

\* CatchRequestException taking the last attempt for `attempt == max_retries`:
\* the handler never returns, it sleeps after every failure.
CatchAlwaysSleep(t, url, e) ==
    [t EXCEPT !.failures = Append(t.failures, e),
              !.state = "sleeping",
              !.trace = t.trace \o <<"get", "RequestException", "sleep">>]

\* CatchRequestException keeping the message of the first failure for the record.
CatchFirstMessage(t, url, e) ==
    LET caught == [t EXCEPT !.failures = Append(t.failures, e)]
    IN  IF t.attempt = max_retries - 1
        THEN Returned(caught, <<"get", "RequestException">>,
                      Record(url, None, "Error",
                             Some("Request failed: " \o caught.failures[1]),
                             Some(t.elapsed), None))
        ELSE [caught EXCEPT !.state = "sleeping",
                            !.trace = t.trace \o <<"get", "RequestException", "sleep">>]

\* except requests.RequestException as e, on the last attempt or before it.
CatchRequestException(t, url, e) ==
    LET caught == [t EXCEPT !.failures = Append(t.failures, e)]
    IN  IF t.attempt = max_retries - 1
        THEN Returned(caught, <<"get", "RequestException">>,
                      Record(url, None, "Error", Some("Request failed: " \o e),
                             Some(t.elapsed), None))
        ELSE [caught EXCEPT !.state = "sleeping",
                            !.trace = t.trace \o <<"get", "RequestException", "sleep">>]

\* session.get raised a requests.RequestException.
GetRequestException(k) ==
    /\ task[k].state = "running"
    /\ \E e \in web.failures :
        task' = [task EXCEPT ![k] = CatchRequestException(task[k], urls[k], e)]
    /\ UNCHANGED <<rest, config, web, urls, progress_callback, pc, yielded, i, cur,
                   results, calls>>

\* GetOtherException with the exception caught like a transport failure.
GetOtherExceptionRetrying(k) ==
    /\ task[k].state = "running"
    /\ \E e \in web.errors :
        task' = [task EXCEPT ![k] = CatchRequestException(task[k], urls[k], e)]
    /\ UNCHANGED <<rest, config, web, urls, progress_callback, pc, yielded, i, cur,
                   results, calls>>

\* session.get raised an exception that is no RequestException: it escapes
\* _process_single_url and is set on the future.
GetOtherException(k) ==
    /\ task[k].state = "running"
    /\ \E e \in web.errors :
        task' = [task EXCEPT ![k].state = "done",
                             ![k].trace = @ \o <<"get", "Exception">>,
                             ![k].exception = Some(e)]
    /\ UNCHANGED <<rest, config, web, urls, progress_callback, pc, yielded, i, cur,
                   results, calls>>

\* time.sleep(1) returns: the loop goes to the next attempt.
Sleep(k) ==
    /\ task[k].state = "sleeping"
    /\ task' = [task EXCEPT ![k] =
                    LoopNext([task[k] EXCEPT !.elapsed = @ + 1], task[k].attempt + 1)]
    /\ UNCHANGED <<rest, config, web, urls, progress_callback, pc, yielded, i, cur,
                   results, calls>>

(***************************************************************************)
(* URLProcessor.process_urls: the loop over as_completed.                  *)
(***************************************************************************)
\* Collected giving the record of a raised future a status of its own.
CollectedAsFailed(url, t) ==
    IF t.exception = None THEN t.result[1]
    ELSE Record(url, None, "Failed", Some("Processing failed: " \o t.exception[1]),
                None, None)

\* The dictionary appended for a future: its result, or the record built from
\* the exception future.result() raises.
Collected(url, t) ==
    IF t.exception = None THEN t.result[1]
    ELSE Record(url, None, "Error", Some("Processing failed: " \o t.exception[1]),
                None, None)

\* Collect letting the exception of a future collected before stand for the
\* result of every later one.
CollectPoisoned(k) ==
    /\ pc = "as_completed"
    /\ k \notin yielded
    /\ task[k].state = "done"
    /\ yielded' = yielded \cup {k}
    /\ cur' = k
    /\ i' = Cardinality(yielded)
    /\ results' = Append(results,
            IF \E j \in yielded : task[j].exception /= None
            THEN Record(urls[k], None, "Error", Some("Processing failed: aborted"),
                        None, None)
            ELSE Collected(urls[k], task[k]))
    /\ pc' = IF progress_callback THEN "callback" ELSE "as_completed"
    /\ UNCHANGED <<rest, config, web, urls, progress_callback, task, calls>>

\* Collect with the `except Exception` branch appending nothing.
CollectDropFailed(k) ==
    /\ pc = "as_completed"
    /\ k \notin yielded
    /\ task[k].state = "done"
    /\ yielded' = yielded \cup {k}
    /\ cur' = k
    /\ i' = Cardinality(yielded)
    /\ results' = IF task[k].exception = None
                  THEN Append(results, Collected(urls[k], task[k])) ELSE results
    /\ pc' = IF progress_callback THEN "callback" ELSE "as_completed"
    /\ UNCHANGED <<rest, config, web, urls, progress_callback, task, calls>>

\* as_completed yields a finished future; its record is appended.
Collect(k) ==
    /\ pc = "as_completed"
    /\ k \notin yielded
    /\ task[k].state = "done"
    /\ yielded' = yielded \cup {k}
    /\ cur' = k
    /\ i' = Cardinality(yielded)
    /\ results' = Append(results, Collected(urls[k], task[k]))
    /\ pc' = IF progress_callback THEN "callback" ELSE "as_completed"
    /\ UNCHANGED <<rest, config, web, urls, progress_callback, task, calls>>

\* Progress counting from zero: progress_callback(i, total_urls, url).
ProgressFromZero ==
    /\ pc = "callback"
    /\ calls' = Append(calls, <<i, Len(urls), urls[cur]>>)
    /\ pc' = "as_completed"
    /\ UNCHANGED <<rest, config, web, urls, progress_callback, task, yielded, i, cur,
                   results>>

\* progress_callback(i + 1, total_urls, url)
Progress ==
    /\ pc = "callback"
    /\ calls' = Append(calls, <<i + 1, Len(urls), urls[cur]>>)
    /\ pc' = "as_completed"
    /\ UNCHANGED <<rest, config, web, urls, progress_callback, task, yielded, i, cur,
                   results>>

\* as_completed is exhausted: the pool shuts down and results is returned.
Return ==
    /\ pc = "as_completed"
    /\ yielded = Futures
    /\ pc' = "returned"
    /\ UNCHANGED <<rest, config, web, urls, progress_callback, task, yielded, i, cur,
                   results, calls>>

Next ==
    \/ \E k \in Futures : StartTask(k)
    \/ \E k \in Futures : GetOk(k)
    \/ \E k \in Futures : GetHttpError(k)
    \/ \E k \in Futures : GetRequestException(k)
    \/ \E k \in Futures : GetOtherException(k)
    \/ \E k \in Futures : Sleep(k)
    \/ \E k \in Futures : Collect(k)
    \/ Progress
    \/ Return

Spec == Init /\ [][Next]_vars

\* One URL (so one worker), up to MaxRetries attempts, the constructor's defaults
\* for the normalisation flags, the web of RetryPages.
InitRetries ==
    /\ InitRun({<<url>> : url \in RequestedUrls}, RetryWeb, {1})
    /\ force_https = TRUE
    /\ remove_trailing_slash = TRUE
    /\ ignore_query_params = FALSE

\* One URL, a single attempt, every combination of the normalisation flags, the
\* larger web.
InitPages ==
    /\ InitRun({<<url>> : url \in RequestedUrls}, LargeWeb, {1})
    /\ max_retries = 1
    /\ force_https \in BOOLEAN
    /\ remove_trailing_slash \in BOOLEAN
    /\ ignore_query_params \in BOOLEAN

\* The runs over one URL, with and without a progress callback.
InitPage ==
    /\ InitRetries \/ InitPages
    /\ progress_callback \in BOOLEAN

SpecPage == InitPage /\ [][Next]_vars

(***************************************************************************)
(* URLProcessor._normalize_url on its own: a URL put together from its     *)
(* components is normalised, then the result is normalised again.          *)
(***************************************************************************)
MaxSlashes == 2     \* the most slashes appended to a path
MaxNormalize == 2   \* how often _normalize_url is applied in a row

RECURSIVE Slashes(_)
Slashes(n) == IF n = 0 THEN "" ELSE "/" \o Slashes(n - 1)

Schemes == {"http", "https", "HTTP", "ftp"}
UserInfos == {"", "User:Pw"}
Hosts == {"example.com", "Example.COM"}
Ports == {"", "8080"}
BasePaths == {"", "/p", "/P/q", "/a;x", "/;", "/a/;x"}
Queries == {None, Some(""), Some("x=1"), Some("X=1&next=/")}
Fragments == {None, Some("top")}

GivenUrls ==
    {Url(scheme, userinfo, host, port, base \o Slashes(n), query, fragment) :
        scheme \in Schemes, userinfo \in UserInfos, host \in Hosts, port \in Ports,
        base \in BasePaths, n \in 0..MaxSlashes, query \in Queries,
        fragment \in Fragments}

\* The netloc of a URL given by its components.
NetlocOf(userinfo, host, port) ==
    (IF userinfo = "" THEN "" ELSE userinfo \o "@") \o host
        \o (IF port = "" THEN "" ELSE ":" \o port)

\* The text of a URL given by its components.
TextOf(u) ==
    u.scheme \o "://" \o NetlocOf(u.userinfo, u.host, u.port) \o u.path
        \o (IF u.query = None THEN "" ELSE "?" \o u.query[1])
        \o (IF u.fragment = None THEN "" ELSE "#" \o u.fragment[1])

\* A URLProcessor with some normalisation flags, idle, and a URL to normalise.
InitNormalize ==
    /\ concurrent_requests = 1
    /\ max_retries = 1
    /\ web = SmallWeb
    /\ urls = <<>>
    /\ task = <<>>
    /\ pc = "as_completed"
    /\ yielded = {}
    /\ i = 0
    /\ cur = 0
    /\ results = <<>>
    /\ calls = <<>>
    /\ progress_callback = FALSE
    /\ force_https \in BOOLEAN
    /\ remove_trailing_slash \in BOOLEAN
    /\ ignore_query_params \in BOOLEAN
    /\ given \in GivenUrls
    /\ normalized = <<>>
    /\ NothingExtracted
    /\ NothingDiscovered

\* self._normalize_url(url), on the given URL and then on its own result.
Normalize ==
    /\ Len(normalized) < MaxNormalize
    /\ normalized' = Append(normalized,
                            _normalize_url(IF normalized = <<>> THEN TextOf(given)
                                           ELSE normalized[Len(normalized)]))
    /\ UNCHANGED <<config, web, urls, progress_callback, task, pc, yielded, i, cur,
                   results, calls, given, extraction, discovery>>

NextNormalize == Normalize

SpecNormalize == InitNormalize /\ [][NextNormalize]_vars

(***************************************************************************)
(* The extraction step: app.extract_urls over the selected sitemaps, with  *)
(* the one SitemapParser it constructs.  The source is "From Website       *)
(* Sitemaps": no manual URL is added.                                      *)
(***************************************************************************)
MaxChildren == 2    \* the most <sitemap> entries of a sitemap index
MaxDepth == 4       \* the deepest nesting of extract_urls calls that is followed

IndexUrl == "https://example.com/sitemap_index.xml"
PostsUrl == "https://example.com/sitemap-posts.xml"
PagesUrl == "https://example.com/sitemap-pages.xml"
SitemapUrls == {IndexUrl, PostsUrl, PagesUrl}

\* The <loc> texts of three <urlset> documents; the last shares a URL with the first.
Three == <<"https://example.com/a", "https://example.com/b", "https://example.com/c">>
Five == <<"https://example.com/d", "https://example.com/e", "https://example.com/f",
          "https://example.com/g", "https://example.com/h">>
FiveOverlap == <<"https://example.com/c", "https://example.com/d", "https://example.com/e",
                 "https://example.com/f", "https://example.com/g">>

\* What requests.get and the XML parser make of a sitemap URL: a <urlset> or a
\* <sitemapindex> with the texts of its <loc> elements in document order, a
\* requests.RequestException (raise_for_status included), or an ET.ParseError.
UrlSet(locs) == [kind |-> "urlset", locs |-> locs, message |-> ""]
SitemapIndex(locs) == [kind |-> "sitemapindex", locs |-> locs, message |-> ""]
RequestFailure == [kind |-> "RequestException", locs |-> <<>>, message |-> "404 Client Error: Not Found"]
MissingSchema == [kind |-> "RequestException", locs |-> <<>>, message |-> "Invalid URL '': No scheme supplied. Perhaps you meant https://?"]
Malformed == [kind |-> "ParseError", locs |-> <<>>, message |-> "syntax error: line 1, column 0"]

\* The index may list any sitemaps, itself included; the posts sitemap may be
\* a nested index of one child; the pages sitemap is a leaf.
IndexAnswers == {UrlSet(Three)} \cup {SitemapIndex(q) : q \in SeqsUpTo(SitemapUrls, MaxChildren)}
PostsAnswers == {UrlSet(Three), RequestFailure, Malformed} \cup {SitemapIndex(<<u>>) : u \in SitemapUrls}
PagesAnswers == {UrlSet(Five), UrlSet(FiveOverlap), RequestFailure, Malformed}
SitemapWebs ==
    {(IndexUrl :> a) @@ (PostsUrl :> b) @@ (PagesUrl :> c) :
        a \in IndexAnswers, b \in PostsAnswers, c \in PagesAnswers}

\* One or two distinct sitemaps selected by the user.
Selections ==
    {<<u>> : u \in SitemapUrls}
        \cup {q \in SitemapUrls \X SitemapUrls : q[1] /= q[2]}

\* A URLProcessor that is not running.
IdleProcessor ==
    /\ concurrent_requests = 1
    /\ max_retries = 1
    /\ force_https = TRUE
    /\ remove_trailing_slash = TRUE
    /\ ignore_query_params = FALSE
    /\ web = <<>>
    /\ urls = <<>>
    /\ progress_callback = FALSE
    /\ task = <<>>
    /\ pc = "as_completed"
    /\ yielded = {}
    /\ i = 0
    /\ cur = 0
    /\ results = <<>>
    /\ calls = <<>>

\* app.extract_urls has constructed its SitemapParser and enters its loop.
InitSitemap ==
    /\ IdleProcessor
    /\ NothingNormalized
    /\ NothingDiscovered
    /\ url_source = "From Website Sitemaps"
    /\ manual_urls = <<>>
    /\ sitemaps \in SitemapWebs
    /\ selected_sitemaps \in Selections
    /\ extracted_urls = <<>>
    /\ app = "for"
    /\ sel = 1
    /\ all_urls = {}
    /\ st_error = <<>>
    /\ processed_sitemaps = {}
    /\ stack = <<>>
    /\ fetched = <<>>
    /\ raised = None
    /\ returned = <<>>
    /\ document = <<>>
    /\ chosen = None
    /\ infos = <<>>

Range(q) == {q[n] : n \in 1..Len(q)}
Top == stack[Len(stack)]
Popped == SubSeq(stack, 1, Len(stack) - 1)

\* An activation of extract_urls(url): before requests.get, or in the loop of
\* _parse_xml_sitemap over the <sitemap> entries `locs`, at entry `next`, with
\* the list `urls` built so far.
Frame(url, at, locs, next, found) ==
    [url |-> url, at |-> at, locs |-> locs, next |-> next, urls |-> found]

\* What requests.get(sitemap_url) and the parser give.
Answer(sitemap_url) ==
    IF sitemap_url \in DOMAIN sitemaps THEN sitemaps[sitemap_url]
    ELSE IF sitemap_url = "" THEN MissingSchema
    ELSE RequestFailure

\* HasText taking every <loc> element for one with text.
HasTextAlways(loc) == TRUE

\* `if loc_elem is not None and loc_elem.text`
HasText(loc) == loc /= ""

RECURSIVE Stripped(_)
\* loc_elem.text.strip() of each entry
Stripped(locs) ==
    IF locs = <<>> THEN <<>> ELSE <<strip(Head(locs))>> \o Stripped(Tail(locs))

\* url_source in ["From Website Sitemaps", "Both Methods"] and
\* st.session_state.selected_sitemaps; the labels' leading symbols are left out.
FromSitemaps ==
    url_source \in {"From Website Sitemaps", "Both Methods"} /\ selected_sitemaps /= <<>>

\* url_source in ["Manual URL List", "Both Methods"] and manual_urls
FromManual ==
    url_source \in {"Manual URL List", "Both Methods"} /\ manual_urls /= <<>>

\* validators.url(url), as far as the lines entered here go: a URL needs a
\* scheme followed by "://", a host with a dot in it and no blank.
validators_url(url) ==
    /\ urlparse(url, "").raises = None
    /\ urlparse(url, "").scheme \in {"http", "https", "ftp"}
    /\ Contains(urlparse(url, "").netloc, ".")
    /\ ~Contains(url, " ")

\* valid_manual_urls: the lines validators.url accepts, in order.
valid_manual_urls == SelectSeq(manual_urls, validators_url)

RECURSIVE list(_)
\* list(a_set): the elements of the set, each once, in the set's own order.
list(S) ==
    IF S = {} THEN <<>>
    ELSE LET x == CHOOSE y \in S : TRUE IN <<x>> \o list(S \ {x})

RECURSIVE Flat(_)
\* The lists of a list, joined in order.
Flat(lists) == IF lists = <<>> THEN <<>> ELSE Head(lists) \o Flat(Tail(lists))

\* The argument of the call of extract_urls the program is about to make:
\* by app.extract_urls for the next selected sitemap, by get_sitemap_info for
\* the URL it was given, or by _parse_xml_sitemap for the next <sitemap> entry.  None when no call is about to be made.
Calling ==
    IF raised /= None THEN None
    ELSE IF stack = <<>>
    THEN IF ((app = "for" /\ FromSitemaps) \/ app = "try") /\ sel <= Len(selected_sitemaps)
         THEN Some(selected_sitemaps[sel]) ELSE None
    ELSE IF Top.at = "for" /\ Top.next <= Len(Top.locs)
         THEN Some(Top.locs[Top.next]) ELSE None

\* A number and a string as values of one dictionary key.
Number(n) == [type |-> "int", int |-> n, str |-> ""]
Text(t) == [type |-> "str", int |-> 0, str |-> t]

\* The dictionary get_sitemap_info returns, without the response's headers.
Info(url, status_code, url_count) ==
    [url |-> url, status_code |-> status_code, url_count |-> url_count]

\* ReturnTo with the child's list put in front of the parent's.
ReturnToInFront(below, found) ==
    IF below = <<>>
    THEN /\ stack' = <<>>
         /\ returned' = Append(returned, found)
         /\ sel' = sel + 1
         /\ IF app = "try"
            THEN /\ infos' = Append(infos, Info(selected_sitemaps[sel], Number(200), Number(Len(found))))
                 /\ app' = "head"
                 /\ UNCHANGED all_urls
            ELSE /\ all_urls' = all_urls \cup Range(found)
                 /\ UNCHANGED <<app, infos>>
    ELSE /\ stack' = [below EXCEPT ![Len(below)].urls = found \o @,
                                   ![Len(below)].next = @ + 1]
         /\ UNCHANGED <<all_urls, returned, sel, app, infos>>

\* ReturnTo with the app's set assigned the list (all_urls = set(urls)), not updated.
ReturnToAssigning(below, found) ==
    IF below = <<>>
    THEN /\ stack' = <<>>
         /\ returned' = Append(returned, found)
         /\ sel' = sel + 1
         /\ IF app = "try"
            THEN /\ infos' = Append(infos, Info(selected_sitemaps[sel], Number(200), Number(Len(found))))
                 /\ app' = "head"
                 /\ UNCHANGED all_urls
            ELSE /\ all_urls' = Range(found)
                 /\ UNCHANGED <<app, infos>>
    ELSE /\ stack' = [below EXCEPT ![Len(below)].urls = @ \o found,
                                   ![Len(below)].next = @ + 1]
         /\ UNCHANGED <<all_urls, returned, sel, app, infos>>

\* extract_urls returns `found` to its caller, whose frames are `below`:
\* urls.extend(child_urls) in _parse_xml_sitemap, all_urls.update(urls) in the
\* app, info['url_count'] = len(urls) in get_sitemap_info.
ReturnTo(below, found) ==
    IF below = <<>>
    THEN /\ stack' = <<>>
         /\ returned' = Append(returned, found)
         /\ sel' = sel + 1
         /\ IF app = "try"
            THEN /\ infos' = Append(infos, Info(selected_sitemaps[sel], Number(200), Number(Len(found))))
                 /\ app' = "head"
                 /\ UNCHANGED all_urls
            ELSE /\ all_urls' = all_urls \cup Range(found)
                 /\ UNCHANGED <<app, infos>>
    ELSE /\ stack' = [below EXCEPT ![Len(below)].urls = @ \o found,
                                   ![Len(below)].next = @ + 1]
         /\ UNCHANGED <<all_urls, returned, sel, app, infos>>

\* CallNew without its processed_sitemaps.add(sitemap_url).
CallNewUnmarked ==
    /\ Calling /= None
    /\ Calling[1] \notin processed_sitemaps
    /\ Len(stack) < MaxDepth
    /\ stack' = Append(stack, Frame(Calling[1], "get", <<>>, 0, <<>>))
    /\ UNCHANGED <<processor, given, normalized, discovery, source, format, infos, sitemaps,
                   selected_sitemaps, extracted_urls, app, sel, all_urls, st_error, fetched, raised,
                   returned, processed_sitemaps>>

\* CallProcessed without the test of processed_sitemaps: the sitemap is fetched again.
CallAgain ==
    /\ Calling /= None
    /\ Calling[1] \in processed_sitemaps
    /\ Len(stack) < MaxDepth
    /\ stack' = Append(stack, Frame(Calling[1], "get", <<>>, 0, <<>>))
    /\ UNCHANGED <<processor, given, normalized, discovery, source, format, infos, sitemaps,
                   selected_sitemaps, extracted_urls, app, sel, all_urls, st_error, fetched, raised,
                   returned, processed_sitemaps>>

\* extract_urls(u) for a u in processed_sitemaps returns [] at once.
CallProcessed ==
    /\ Calling /= None
    /\ Calling[1] \in processed_sitemaps
    /\ ReturnTo(stack, <<>>)
    /\ UNCHANGED <<processor, given, normalized, discovery, source, format, sitemaps,
                   selected_sitemaps, extracted_urls, st_error, processed_sitemaps, fetched, raised>>

\* extract_urls(u) for a new u: u is added to processed_sitemaps, the fetch is next.
CallNew ==
    /\ Calling /= None
    /\ Calling[1] \notin processed_sitemaps
    /\ Len(stack) < MaxDepth
    /\ processed_sitemaps' = processed_sitemaps \cup {Calling[1]}
    /\ stack' = Append(stack, Frame(Calling[1], "get", <<>>, 0, <<>>))
    /\ UNCHANGED <<processor, given, normalized, discovery, source, format, infos, sitemaps,
                   selected_sitemaps, extracted_urls, app, sel, all_urls, st_error, fetched, raised,
                   returned>>

\* requests.get or raise_for_status raises: "Failed to fetch sitemap ...".
GetRaises ==
    /\ stack /= <<>>
    /\ Top.at = "get"
    /\ Answer(Top.url).kind = "RequestException"
    /\ fetched' = Append(fetched, Top.url)
    /\ raised' = Some("Failed to fetch sitemap " \o Top.url \o ": "
                        \o Answer(Top.url).message)
    /\ stack' = Popped
    /\ UNCHANGED <<processor, given, normalized, discovery, source, format, infos, sitemaps,
                   selected_sitemaps, extracted_urls, app, sel, all_urls, st_error, processed_sitemaps,
                   returned>>

\* ET.fromstring raises ParseError: "XML parsing error: ...", wrapped by extract_urls.
GetMalformed ==
    /\ stack /= <<>>
    /\ Top.at = "get"
    /\ Answer(Top.url).kind = "ParseError"
    /\ fetched' = Append(fetched, Top.url)
    /\ raised' = Some("Failed to parse sitemap " \o Top.url \o ": "
                        \o "XML parsing error: " \o Answer(Top.url).message)
    /\ stack' = Popped
    /\ UNCHANGED <<processor, given, normalized, discovery, source, format, infos, sitemaps,
                   selected_sitemaps, extracted_urls, app, sel, all_urls, st_error, processed_sitemaps,
                   returned>>

\* A <urlset>: the texts of its <loc> elements are returned.
GetUrlset ==
    /\ stack /= <<>>
    /\ Top.at = "get"
    /\ Answer(Top.url).kind = "urlset"
    /\ fetched' = Append(fetched, Top.url)
    /\ ReturnTo(Popped, Stripped(SelectSeq(Answer(Top.url).locs, HasText)))
    /\ UNCHANGED <<processor, given, normalized, discovery, source, format, sitemaps,
                   selected_sitemaps, extracted_urls, st_error, processed_sitemaps, raised>>

\* A <sitemapindex>: the loop over its <sitemap> entries begins.
GetIndex ==
    /\ stack /= <<>>
    /\ Top.at = "get"
    /\ Answer(Top.url).kind = "sitemapindex"
    /\ fetched' = Append(fetched, Top.url)
    /\ stack' = Append(Popped, Frame(Top.url, "for",
                                     Stripped(SelectSeq(Answer(Top.url).locs, HasText)),
                                     1, <<>>))
    /\ UNCHANGED <<processor, given, normalized, discovery, source, format, infos, sitemaps,
                   selected_sitemaps, extracted_urls, app, sel, all_urls, st_error, processed_sitemaps,
                   raised, returned>>

\* The loop over the <sitemap> entries is over: the index returns its list.
ReturnIndex ==
    /\ stack /= <<>>
    /\ raised = None
    /\ Top.at = "for"
    /\ Top.next > Len(Top.locs)
    /\ ReturnTo(Popped, Top.urls)
    /\ UNCHANGED <<processor, given, normalized, discovery, source, format, sitemaps,
                   selected_sitemaps, extracted_urls, st_error, processed_sitemaps, fetched, raised>>

\* Reraise with the index skipping the child that failed and going on to the next.
ReraiseSkipping ==
    /\ stack /= <<>>
    /\ raised /= None
    /\ raised' = None
    /\ stack' = [stack EXCEPT ![Len(stack)].next = @ + 1]
    /\ UNCHANGED <<processor, given, normalized, discovery, source, format, infos, sitemaps,
                   selected_sitemaps, extracted_urls, app, sel, all_urls, st_error, processed_sitemaps,
                   fetched, returned>>

\* A child's exception reaches `except Exception` of the index's extract_urls,
\* which raises "Failed to parse sitemap ..." in its place.
Reraise ==
    /\ stack /= <<>>
    /\ raised /= None
    /\ raised' = Some("Failed to parse sitemap " \o Top.url \o ": " \o raised[1])
    /\ stack' = Popped
    /\ UNCHANGED <<processor, given, normalized, discovery, source, format, infos, sitemaps,
                   selected_sitemaps, extracted_urls, app, sel, all_urls, st_error, processed_sitemaps,
                   fetched, returned>>

\* AppExcept that stores what was collected before the exception.
AppExceptStoring ==
    /\ stack = <<>>
    /\ raised /= None
    /\ app = "for"
    /\ st_error' = Append(st_error, "Error extracting URLs: " \o raised[1])
    /\ app' = "except"
    /\ raised' = None
    /\ extracted_urls' = list(all_urls)
    /\ UNCHANGED <<processor, given, normalized, discovery, source, format, infos, sitemaps,
                   selected_sitemaps, sel, all_urls, processed_sitemaps, stack, fetched, returned>>

\* AppExcept that clears the list of the session.
AppExceptClearing ==
    /\ stack = <<>>
    /\ raised /= None
    /\ app = "for"
    /\ st_error' = Append(st_error, "Error extracting URLs: " \o raised[1])
    /\ app' = "except"
    /\ raised' = None
    /\ extracted_urls' = <<>>
    /\ UNCHANGED <<processor, given, normalized, discovery, source, format, infos, sitemaps,
                   selected_sitemaps, sel, all_urls, processed_sitemaps, stack, fetched, returned>>

\* The exception reaches app.extract_urls' `except Exception`: st.error(...).
\* (The message's leading symbol is left out.)
AppExcept ==
    /\ stack = <<>>
    /\ raised /= None
    /\ app = "for"
    /\ st_error' = Append(st_error, "Error extracting URLs: " \o raised[1])
    /\ app' = "except"
    /\ raised' = None
    /\ UNCHANGED <<processor, given, normalized, discovery, source, format, infos, sitemaps,
                   selected_sitemaps, extracted_urls, sel, all_urls, processed_sitemaps, stack, fetched,
                   returned>>

\* AppDone keeping every occurrence: the lists are concatenated, not united.
AppDoneAppending ==
    /\ stack = <<>>
    /\ raised = None
    /\ app = "for"
    /\ FromSitemaps => sel > Len(selected_sitemaps)
    /\ all_urls' = all_urls \cup (IF FromManual THEN Range(valid_manual_urls) ELSE {})
    /\ extracted_urls' = Flat(returned) \o (IF FromManual THEN valid_manual_urls ELSE <<>>)
    /\ app' = "done"
    /\ UNCHANGED <<processor, given, normalized, discovery, source, format, infos, sitemaps,
                   selected_sitemaps, sel, st_error, processed_sitemaps, stack, fetched,
                   raised, returned>>

\* The loop over the selected sitemaps is over, or was not entered: the valid
\* manual URLs are added, st.session_state.extracted_urls = list(all_urls).
AppDone ==
    /\ stack = <<>>
    /\ raised = None
    /\ app = "for"
    /\ FromSitemaps => sel > Len(selected_sitemaps)
    /\ all_urls' = all_urls \cup (IF FromManual THEN Range(valid_manual_urls) ELSE {})
    /\ extracted_urls' = list(all_urls')
    /\ app' = "done"
    /\ UNCHANGED <<processor, given, normalized, discovery, source, format, infos, sitemaps,
                   selected_sitemaps, sel, st_error, processed_sitemaps, stack, fetched,
                   raised, returned>>

NextSitemap ==
    \/ CallProcessed
    \/ CallNew
    \/ GetRaises
    \/ GetMalformed
    \/ GetUrlset
    \/ GetIndex
    \/ ReturnIndex
    \/ Reraise
    \/ AppExcept
    \/ AppDone

SpecSitemap == InitSitemap /\ [][NextSitemap]_vars

\* Every step that can be taken is taken eventually: every fetch returns.
FairSpecSitemap == SpecSitemap /\ WF_vars(NextSitemap)

(***************************************************************************)
(* The extraction step with URLs entered by hand.                          *)
(***************************************************************************)
MaxManual == 2      \* the longest list of lines entered by hand

\* A <urlset> that names a URL twice.
Twice == <<"https://example.com/a", "https://example.com/b", "https://example.com/a">>

\* The lines entered: a URL the sitemaps have too, one they lack, two lines
\* validators.url rejects.  A line is stripped and not empty (app.py:178).
ManualLines == {"https://example.com/a", "https://example.com/manual",
                "not a url", "example.com/x"}
ManualLists == SeqsUpTo(ManualLines, MaxManual)

\* The index lists both leaves; the leaves may share URLs, repeat one or fail.
ManualWebs ==
    {(IndexUrl :> SitemapIndex(<<PostsUrl, PagesUrl>>)) @@ (PostsUrl :> b) @@ (PagesUrl :> c) :
        b \in {UrlSet(Three), RequestFailure}, c \in {UrlSet(Twice), UrlSet(FiveOverlap)}}

\* The extraction button is shown (app.py:201-202): the method is the manual
\* list, which resets the selection (111-113), or both methods.
InitManual ==
    /\ IdleProcessor
    /\ NothingNormalized
    /\ NothingDiscovered
    /\ \/ /\ url_source = "Manual URL List"
          /\ selected_sitemaps = <<>>
          /\ manual_urls \in ManualLists \ {<<>>}
       \/ /\ url_source = "Both Methods"
          /\ selected_sitemaps \in Selections \cup {<<>>}
          /\ manual_urls \in ManualLists
          /\ selected_sitemaps /= <<>> \/ manual_urls /= <<>>
    /\ sitemaps \in ManualWebs
    /\ extracted_urls = <<>>
    /\ app = "for"
    /\ sel = 1
    /\ all_urls = {}
    /\ st_error = <<>>
    /\ processed_sitemaps = {}
    /\ stack = <<>>
    /\ fetched = <<>>
    /\ raised = None
    /\ returned = <<>>
    /\ document = <<>>
    /\ chosen = None
    /\ infos = <<>>

SpecManual == (InitSitemap \/ InitManual) /\ [][NextSitemap]_vars

(***************************************************************************)
(* The extraction step over sitemaps with <loc> elements without text.     *)
(***************************************************************************)
\* <loc> texts: none (an empty element), blanks only, a URL between blanks.
NoText == ""
BlankText == " \n "
PaddedPosts == " " \o PostsUrl \o "\n"

\* The index lists the posts sitemap and an entry without text or of blanks,
\* or the posts sitemap between blanks; so do the leaves with their URLs.
BlankWebs ==
    {(IndexUrl :> a) @@ (PostsUrl :> b) @@ (PagesUrl :> UrlSet(Five)) :
        a \in {SitemapIndex(<<PostsUrl, NoText, PagesUrl>>),
                SitemapIndex(<<PostsUrl, BlankText, PagesUrl>>),
                SitemapIndex(<<PaddedPosts, PagesUrl>>)},
        b \in {UrlSet(<<"https://example.com/a", NoText, "https://example.com/b">>),
                UrlSet(<<"https://example.com/a", BlankText, "https://example.com/b">>),
                UrlSet(<<" https://example.com/a\n", "https://example.com/b">>),
                SitemapIndex(<<NoText>>),
                SitemapIndex(<<BlankText>>)}}

InitBlank ==
    /\ IdleProcessor
    /\ NothingNormalized
    /\ NothingDiscovered
    /\ url_source = "From Website Sitemaps"
    /\ manual_urls = <<>>
    /\ sitemaps \in BlankWebs
    /\ selected_sitemaps \in Selections
    /\ extracted_urls = <<>>
    /\ app = "for"
    /\ sel = 1
    /\ all_urls = {}
    /\ st_error = <<>>
    /\ processed_sitemaps = {}
    /\ stack = <<>>
    /\ fetched = <<>>
    /\ raised = None
    /\ returned = <<>>
    /\ document = <<>>
    /\ chosen = None
    /\ infos = <<>>

SpecBlank == (InitSitemap \/ InitBlank) /\ [][NextSitemap]_vars

(***************************************************************************)
(* A client that keeps one SitemapParser and asks it about sitemaps with   *)
(* get_sitemap_info, which swallows what extract_urls raises.              *)
(***************************************************************************)
MaxCalls == 3       \* the most get_sitemap_info calls made on the parser

\* The status codes requests.head answers with.
HeadStatuses == {200, 404}

\* The index lists the posts sitemap and then the pages sitemap or itself;
\* the leaves may fail.
InfoWebs ==
    {(IndexUrl :> SitemapIndex(<<PostsUrl, u>>)) @@ (PostsUrl :> b) @@ (PagesUrl :> c) :
        u \in {PagesUrl, IndexUrl},
        b \in {UrlSet(Three), RequestFailure, Malformed},
        c \in {UrlSet(Five), RequestFailure}}

\* The parser is new; the URLs the client asks about, in order and with
\* repetitions, are held in selected_sitemaps.
InitInfo ==
    /\ IdleProcessor
    /\ NothingNormalized
    /\ NothingDiscovered
    /\ url_source = "From Website Sitemaps"
    /\ manual_urls = <<>>
    /\ sitemaps \in InfoWebs
    /\ selected_sitemaps \in SeqsUpTo(SitemapUrls, MaxCalls) \ {<<>>}
    /\ extracted_urls = <<>>
    /\ app = "head"
    /\ sel = 1
    /\ all_urls = {}
    /\ st_error = <<>>
    /\ processed_sitemaps = {}
    /\ stack = <<>>
    /\ fetched = <<>>
    /\ raised = None
    /\ returned = <<>>
    /\ document = <<>>
    /\ chosen = None
    /\ infos = <<>>

\* requests.head raises: the outer `except Exception` returns the error dictionary.
InfoHeadRaises ==
    /\ app = "head"
    /\ sel <= Len(selected_sitemaps)
    /\ infos' = Append(infos, Info(selected_sitemaps[sel], Text("Error"), Text("Error")))
    /\ sel' = sel + 1
    /\ UNCHANGED <<processor, given, normalized, discovery, source, format, sitemaps,
                   selected_sitemaps, extracted_urls, app, all_urls, st_error,
                   processed_sitemaps, stack, fetched, raised, returned>>

\* A status other than 200: info['url_count'] = 'N/A', extract_urls is not called.
InfoHeadOther ==
    /\ app = "head"
    /\ sel <= Len(selected_sitemaps)
    /\ \E code \in HeadStatuses \ {200} :
           infos' = Append(infos, Info(selected_sitemaps[sel], Number(code), Text("N/A")))
    /\ sel' = sel + 1
    /\ UNCHANGED <<processor, given, normalized, discovery, source, format, sitemaps,
                   selected_sitemaps, extracted_urls, app, all_urls, st_error,
                   processed_sitemaps, stack, fetched, raised, returned>>

\* Status 200: the inner try calls self.extract_urls(sitemap_url).
InfoHeadOk ==
    /\ app = "head"
    /\ sel <= Len(selected_sitemaps)
    /\ 200 \in HeadStatuses
    /\ app' = "try"
    /\ UNCHANGED <<processor, given, normalized, discovery, source, format, infos, sitemaps,
                   selected_sitemaps, extracted_urls, sel, all_urls, st_error,
                   processed_sitemaps, stack, fetched, raised, returned>>

\* InfoExcept letting the exception leave the parser's record of the URL it asked about.
InfoExceptForgetting ==
    /\ app = "try"
    /\ stack = <<>>
    /\ raised /= None
    /\ infos' = Append(infos, Info(selected_sitemaps[sel], Number(200), Text("Error")))
    /\ raised' = None
    /\ app' = "head"
    /\ sel' = sel + 1
    /\ processed_sitemaps' = processed_sitemaps \ {selected_sitemaps[sel]}
    /\ UNCHANGED <<processor, given, normalized, discovery, source, format, sitemaps,
                   selected_sitemaps, extracted_urls, all_urls, st_error,
                   stack, fetched, returned>>

\* extract_urls raised: the bare `except:` sets info['url_count'] = 'Error'.
InfoExcept ==
    /\ app = "try"
    /\ stack = <<>>
    /\ raised /= None
    /\ infos' = Append(infos, Info(selected_sitemaps[sel], Number(200), Text("Error")))
    /\ raised' = None
    /\ app' = "head"
    /\ sel' = sel + 1
    /\ UNCHANGED <<processor, given, normalized, discovery, source, format, sitemaps,
                   selected_sitemaps, extracted_urls, all_urls, st_error,
                   processed_sitemaps, stack, fetched, returned>>

NextInfo ==
    \/ InfoHeadRaises
    \/ InfoHeadOther
    \/ InfoHeadOk
    \/ CallProcessed
    \/ CallNew
    \/ GetRaises
    \/ GetMalformed
    \/ GetUrlset
    \/ GetIndex
    \/ ReturnIndex
    \/ Reraise
    \/ InfoExcept

SpecInfo == InitInfo /\ [][NextInfo]_vars

(***************************************************************************)
(* The extraction step run again in a session that holds the list of an    *)
(* earlier, successful extraction.                                         *)
(***************************************************************************)
\* st.session_state.extracted_urls as earlier extractions left it.
EarlierLists == {<<"https://example.com/earlier">>,
                 <<"https://example.com/a", "https://example.com/earlier">>}

InitAgain ==
    /\ IdleProcessor
    /\ NothingNormalized
    /\ NothingDiscovered
    /\ url_source = "From Website Sitemaps"
    /\ manual_urls = <<>>
    /\ sitemaps \in SitemapWebs
    /\ selected_sitemaps \in Selections
    /\ extracted_urls \in EarlierLists
    /\ app = "for"
    /\ sel = 1
    /\ all_urls = {}
    /\ st_error = <<>>
    /\ processed_sitemaps = {}
    /\ stack = <<>>
    /\ fetched = <<>>
    /\ raised = None
    /\ returned = <<>>
    /\ document = <<>>
    /\ chosen = None
    /\ infos = <<>>

SpecAgain == InitAgain /\ [][NextSitemap]_vars


(***************************************************************************)
(* The discovery step: RobotsParser.discover_sitemaps(domain).             *)
(***************************************************************************)
MaxLines == 2       \* the most lines of a robots.txt
MaxAvailable == 2   \* the most sitemap locations that answer HEAD with 200

\* s.startswith(p), s.endswith(p), p in s
startswith(s, p) == Len(p) <= Len(s) /\ SubSeq(s, 1, Len(p)) = p
endswith(s, p) == Len(p) <= Len(s) /\ SubSeq(s, Len(s) - Len(p) + 1, Len(s)) = p
HasPart(s, p) ==
    \E n \in 1..(Len(s) - Len(p) + 1) : SubSeq(s, n, n + Len(p) - 1) = p

\* re.compile(r'^sitemap:\s*(.+)$', re.IGNORECASE | re.MULTILINE).findall:
\* `\s*` takes all the white space after the colon, line ends included, and
\* gives some back when nothing follows it; `.+` takes the rest of the line.
RECURSIVE SkipSpace(_, _)
SkipSpace(s, p) ==
    IF p > Len(s) THEN p
    ELSE IF Contains(Whitespace, Ch(s, p)) THEN SkipSpace(s, p + 1)
    ELSE p

RECURSIVE BackToText(_, _, _)
\* The last position in low..p that does not hold a line end (0: none).
BackToText(s, p, low) ==
    IF p < low THEN 0
    ELSE IF Ch(s, p) /= "\n" THEN p
    ELSE BackToText(s, p - 1, low)

\* The last position of the line that holds position p.
LineEnd(s, p) == IF Find(s, "\n", p) = 0 THEN Len(s) ELSE Find(s, "\n", p) - 1

\* The first position of the group when the pattern matches at line start p.
GroupStart(s, p) ==
    IF p + 7 > Len(s) THEN 0
    ELSE IF lower(SubSeq(s, p, p + 7)) /= "sitemap:" THEN 0
    ELSE IF SkipSpace(s, p + 8) <= Len(s) THEN SkipSpace(s, p + 8)
    ELSE BackToText(s, Len(s), p + 8)

RECURSIVE findall_from(_, _)
findall_from(s, p) ==
    IF p > Len(s) THEN <<>>
    ELSE IF GroupStart(s, p) = 0
    THEN IF Find(s, "\n", p) = 0 THEN <<>> ELSE findall_from(s, Find(s, "\n", p) + 1)
    ELSE <<SubSeq(s, GroupStart(s, p), LineEnd(s, GroupStart(s, p)))>>
            \o findall_from(s, LineEnd(s, GroupStart(s, p)) + 2)

findall(content) == findall_from(content, 1)

\* _determine_sitemap_type that takes an index only from a URL ending in .xml.
_determine_sitemap_type_by_suffix(url, content_type) ==
    IF endswith(lower(url), ".xml") /\ HasPart(lower(url), "index") THEN "XML Index"
    ELSE IF HasPart(content_type, "xml") \/ endswith(lower(url), ".xml") THEN "XML Sitemap"
    ELSE IF HasPart(content_type, "text") \/ endswith(lower(url), ".txt") THEN "Text Sitemap"
    ELSE IF endswith(lower(url), ".gz") THEN "Compressed Sitemap"
    ELSE IF HasPart(content_type, "json") \/ endswith(lower(url), ".json") THEN "JSON Sitemap"
    ELSE "Unknown Format"

\* RobotsParser._determine_sitemap_type
_determine_sitemap_type(url, content_type) ==
    IF HasPart(content_type, "xml") \/ endswith(lower(url), ".xml")
    THEN IF HasPart(lower(url), "index") THEN "XML Index" ELSE "XML Sitemap"
    ELSE IF HasPart(content_type, "text") \/ endswith(lower(url), ".txt") THEN "Text Sitemap"
    ELSE IF endswith(lower(url), ".gz") THEN "Compressed Sitemap"
    ELSE IF HasPart(content_type, "json") \/ endswith(lower(url), ".json") THEN "JSON Sitemap"
    ELSE "Unknown Format"

common_paths == <<"/sitemap.xml", "/sitemap_index.xml", "/sitemaps.xml", "/sitemap.txt", "/sitemap">>

\* What requests.head gives: a response, by its status and headers, or a
\* requests.RequestException.
HeadResponse(status, content_type, size) ==
    [raises |-> None, status |-> status, content_type |-> content_type, size |-> size]
HeadRaises(message) ==
    [raises |-> Some(message), status |-> 0, content_type |-> "", size |-> "Unknown"]
HeadOk(sitemap_url) ==
    IF endswith(sitemap_url, ".xml") THEN HeadResponse(200, "application/XML", "2048")
    ELSE IF endswith(sitemap_url, ".txt") THEN HeadResponse(200, "text/plain; charset=utf-8", "Unknown")
    ELSE HeadResponse(200, "text/html", "512")
\* A location that is not there: some time out, the others answer 404.
HeadMiss(sitemap_url) ==
    IF sitemap_url \in {PostsUrl, "https://example.com/sitemap.txt"}
    THEN HeadRaises("Read timed out.")
    ELSE HeadResponse(404, "text/html", "Unknown")

\* The locations a HEAD may find: the five common ones and one more.
ProbeUrls == {"https://example.com" \o common_paths[n] : n \in 1..Len(common_paths)} \cup {PostsUrl}
HeadNets ==
    {[u \in ProbeUrls |-> IF u \in available THEN HeadOk(u) ELSE HeadMiss(u)] :
        available \in {a \in SUBSET ProbeUrls : Cardinality(a) <= MaxAvailable}}

\* What requests.get(robots_url) gives.
RobotsResponse(status, text) == [raises |-> None, status |-> status, text |-> text]
RobotsRaises(message) == [raises |-> Some(message), status |-> 0, text |-> ""]
RobotsLines ==
    {"Sitemap: https://example.com/sitemap_index.xml", "sitemap:/sitemap-posts.xml",
     "Sitemap: //[", "Sitemap:"}
RobotsTexts == {join("\n", q) : q \in SeqsUpTo(RobotsLines, MaxLines)}
RobotsAnswers ==
    {RobotsRaises("Connection refused"), RobotsResponse(404, "Not Found")}
        \cup {RobotsResponse(200, t) : t \in RobotsTexts}

Domains == {"example.com", "https://[::1"}

\* discover_sitemaps(domain) is called on a new RobotsParser.
InitRobots ==
    /\ IdleProcessor
    /\ NothingNormalized
    /\ NothingExtracted
    /\ domain \in Domains
    /\ robots \in RobotsAnswers
    /\ heads \in HeadNets
    /\ disc = "start"
    /\ base_url = ""
    /\ directives = <<>>
    /\ common = 0
    /\ candidates = <<>>
    /\ probed = <<>>
    /\ discovered = None
    /\ discover_raised = None

\* An exception by its type and its message.
Raised(type, message) == Some([type |-> type, message |-> message])

\* The domain with "https://" in front unless it names its scheme.
WithScheme(d) ==
    IF startswith(d, "http://") \/ startswith(d, "https://") THEN d ELSE "https://" \o d

\* What requests.head(sitemap_url, allow_redirects=True) gives.
HeadAnswer(sitemap_url) ==
    IF sitemap_url \in DOMAIN heads THEN heads[sitemap_url]
    ELSE IF startswith(sitemap_url, "http://") \/ startswith(sitemap_url, "https://")
    THEN HeadResponse(404, "text/html", "Unknown")
    ELSE HeadRaises("No connection adapters were found for " \o sitemap_url)

\* _validate_sitemap that takes every response for a sitemap.
ValidatedUnlessRaised(sitemap_url, answer) ==
    IF answer.raises /= None THEN None
    ELSE Some([url |-> sitemap_url,
               type |-> _determine_sitemap_type(sitemap_url, lower(answer.content_type)),
               status |-> "Available",
               content_type |-> lower(answer.content_type),
               size |-> answer.size])

\* RobotsParser._validate_sitemap: the dictionary, or None.
Validated(sitemap_url, answer) ==
    IF answer.raises /= None THEN None
    ELSE IF answer.status = 200
    THEN Some([url |-> sitemap_url,
               type |-> _determine_sitemap_type(sitemap_url, lower(answer.content_type)),
               status |-> "Available",
               content_type |-> lower(answer.content_type),
               size |-> answer.size])
    ELSE None

_validate_sitemap(sitemap_url) == Validated(sitemap_url, HeadAnswer(sitemap_url))

\* A HEAD request, by its URL and the loop that made it.
Probe(sitemap_url, loop) == [url |-> sitemap_url, loop |-> loop]

\* urlparse(domain) succeeds: base_url is known, the GET of robots.txt is next.
DomainParsed ==
    /\ disc = "start"
    /\ urlparse(WithScheme(domain), "").raises = None
    /\ base_url' = urlparse(WithScheme(domain), "").scheme \o "://"
                        \o urlparse(WithScheme(domain), "").netloc
    /\ disc' = "get"
    /\ UNCHANGED <<processor, given, normalized, extraction, domain, robots, heads,
                   directives, common, candidates, probed, discovered, discover_raised>>

\* urlparse(domain) raises ValueError, outside the try.
DomainRaises ==
    /\ disc = "start"
    /\ urlparse(WithScheme(domain), "").raises /= None
    /\ discover_raised' = Raised("ValueError", urlparse(WithScheme(domain), "").raises[1])
    /\ disc' = "raised"
    /\ UNCHANGED <<processor, given, normalized, extraction, domain, robots, heads,
                   base_url, directives, common, candidates, probed, discovered>>

\* RobotsGetRaises that returns an empty list instead.
RobotsGetRaisesSwallowed ==
    /\ disc = "get"
    /\ robots.raises /= None
    /\ discovered' = Some(<<>>)
    /\ disc' = "returned"
    /\ UNCHANGED <<processor, given, normalized, extraction, domain, robots, heads,
                   base_url, directives, common, candidates, probed, discover_raised>>

\* requests.get(robots_url) raises: "Failed to fetch robots.txt from ...".
RobotsGetRaises ==
    /\ disc = "get"
    /\ robots.raises /= None
    /\ discover_raised' = Raised("Exception",
                                 "Failed to fetch robots.txt from "
                                    \o urljoin(base_url, "/robots.txt") \o ": "
                                    \o robots.raises[1])
    /\ disc' = "raised"
    /\ UNCHANGED <<processor, given, normalized, extraction, domain, robots, heads,
                   base_url, directives, common, candidates, probed, discovered>>

\* Status 200: _parse_robots_content finds the directives.
RobotsGetOk ==
    /\ disc = "get"
    /\ robots.raises = None
    /\ robots.status = 200
    /\ directives' = findall(robots.text)
    /\ disc' = "directives"
    /\ UNCHANGED <<processor, given, normalized, extraction, domain, robots, heads,
                   base_url, common, candidates, probed, discovered, discover_raised>>

\* Another status: _check_common_sitemap_locations.
RobotsGetOther ==
    /\ disc = "get"
    /\ robots.raises = None
    /\ robots.status /= 200
    /\ disc' = "common"
    /\ common' = 1
    /\ UNCHANGED <<processor, given, normalized, extraction, domain, robots, heads,
                   base_url, directives, candidates, probed, discovered, discover_raised>>

\* The next directive needs urljoin and urljoin raises.
JoinRaises(match) ==
    /\ ~startswith(strip(match), "http://")
    /\ ~startswith(strip(match), "https://")
    /\ urljoin_raises(base_url, strip(match)) /= None

\* The next directive's URL, made absolute.
DirectiveUrl(match) ==
    IF startswith(strip(match), "http://") \/ startswith(strip(match), "https://")
    THEN strip(match)
    ELSE urljoin(base_url, strip(match))

\* urljoin raises ValueError in the loop over the directives; no handler of
\* discover_sitemaps catches it.
DirectiveRaises ==
    /\ disc = "directives"
    /\ directives /= <<>>
    /\ JoinRaises(Head(directives))
    /\ discover_raised' = Raised("ValueError",
                                 urljoin_raises(base_url, strip(Head(directives)))[1])
    /\ disc' = "raised"
    /\ UNCHANGED <<processor, given, normalized, extraction, domain, robots, heads,
                   base_url, directives, common, candidates, probed, discovered>>

\* Appended that appends the dictionary twice.
AppendedTwice(sitemap_url, loop, sitemap_info) ==
    /\ candidates' = IF sitemap_info = None THEN candidates
                     ELSE candidates \o <<sitemap_info[1], sitemap_info[1]>>
    /\ probed' = Append(probed, Probe(sitemap_url, loop))

\* `sitemap_info = self._validate_sitemap(sitemap_url)` and
\* `if sitemap_info: sitemaps.append(sitemap_info)`, in the loop `loop`.
Appended(sitemap_url, loop, sitemap_info) ==
    /\ candidates' = IF sitemap_info = None THEN candidates
                     ELSE Append(candidates, sitemap_info[1])
    /\ probed' = Append(probed, Probe(sitemap_url, loop))

Validate(sitemap_url, loop) == Appended(sitemap_url, loop, _validate_sitemap(sitemap_url))

\* The next directive's sitemap is validated: it is kept when HEAD answers 200.
DirectiveProbed ==
    /\ disc = "directives"
    /\ directives /= <<>>
    /\ ~JoinRaises(Head(directives))
    /\ Validate(DirectiveUrl(Head(directives)), "directives")
    /\ directives' = Tail(directives)
    /\ UNCHANGED <<processor, given, normalized, extraction, domain, robots, heads,
                   disc, base_url, common, discovered, discover_raised>>

\* The directives gave a sitemap: it is returned.
DirectivesFound ==
    /\ disc = "directives"
    /\ directives = <<>>
    /\ candidates /= <<>>
    /\ discovered' = Some(candidates)
    /\ disc' = "returned"
    /\ UNCHANGED <<processor, given, normalized, extraction, domain, robots, heads,
                   base_url, directives, common, candidates, probed, discover_raised>>

\* DirectivesEmpty that returns the empty list instead.
DirectivesEmptyReturned ==
    /\ disc = "directives"
    /\ directives = <<>>
    /\ candidates = <<>>
    /\ discovered' = Some(candidates)
    /\ disc' = "returned"
    /\ UNCHANGED <<processor, given, normalized, extraction, domain, robots, heads,
                   base_url, directives, common, candidates, probed, discover_raised>>

\* `if not sitemaps`: _check_common_sitemap_locations.
DirectivesEmpty ==
    /\ disc = "directives"
    /\ directives = <<>>
    /\ candidates = <<>>
    /\ disc' = "common"
    /\ common' = 1
    /\ UNCHANGED <<processor, given, normalized, extraction, domain, robots, heads,
                   base_url, directives, candidates, probed, discovered, discover_raised>>

\* The next common location is validated: it is kept when HEAD answers 200.
CommonProbed ==
    /\ disc = "common"
    /\ common <= Len(common_paths)
    /\ Validate(urljoin(base_url, common_paths[common]), "common")
    /\ common' = common + 1
    /\ UNCHANGED <<processor, given, normalized, extraction, domain, robots, heads,
                   disc, base_url, directives, discovered, discover_raised>>

\* _check_common_sitemap_locations returns, and so does discover_sitemaps.
CommonDone ==
    /\ disc = "common"
    /\ common > Len(common_paths)
    /\ discovered' = Some(candidates)
    /\ disc' = "returned"
    /\ UNCHANGED <<processor, given, normalized, extraction, domain, robots, heads,
                   base_url, directives, common, candidates, probed, discover_raised>>

NextRobots ==
    \/ DomainParsed
    \/ DomainRaises
    \/ RobotsGetRaises
    \/ RobotsGetOk
    \/ RobotsGetOther
    \/ DirectiveRaises
    \/ DirectiveProbed
    \/ DirectivesFound
    \/ DirectivesEmpty
    \/ CommonProbed
    \/ CommonDone

SpecRobots == InitRobots /\ [][NextRobots]_vars

\* One location named by robots.txt, of every suffix, and its HEAD's answer, of
\* every content type; or one location named twice, relatively and absolutely.
CandidateUrls ==
    {"https://example.com/sitemap.xml", "https://example.com/sitemap_index.xml",
     "https://example.com/SITEMAP_INDEX.XML", "https://example.com/sitemap_index",
     "https://example.com/sitemap.txt", "https://example.com/index.txt",
     "https://example.com/sitemap.xml.gz", "https://example.com/sitemap_index.xml.gz",
     "https://example.com/sitemap.json", "https://example.com/feed"}
ContentTypes ==
    {"", "application/xml", "Text/XML; charset=UTF-8", "text/plain", "text/html",
     "application/json", "application/x-gzip"}
CandidateAnswers ==
    {HeadResponse(200, t, "2048") : t \in ContentTypes}
        \cup {HeadResponse(404, "text/html", "Unknown"), HeadResponse(503, "application/xml", "0"),
              HeadRaises("Read timed out.")}
TwiceNamed ==
    {"Sitemap: /sitemap-posts.xml\nSitemap: https://example.com/sitemap-posts.xml",
     "Sitemap: https://example.com/sitemap.txt\nsitemap: sitemap.txt"}

InitCandidate ==
    /\ IdleProcessor
    /\ NothingNormalized
    /\ NothingExtracted
    /\ domain = "example.com"
    /\ \/ \E u \in CandidateUrls :
            /\ robots = RobotsResponse(200, "Sitemap: " \o u)
            /\ \E a \in CandidateAnswers : heads = (u :> a)
       \/ /\ robots \in {RobotsResponse(200, t) : t \in TwiceNamed}
          /\ heads \in HeadNets
    /\ disc = "start"
    /\ base_url = ""
    /\ directives = <<>>
    /\ common = 0
    /\ candidates = <<>>
    /\ probed = <<>>
    /\ discovered = None
    /\ discover_raised = None

\* discover_sitemaps on the robots.txt files of InitRobots and of InitCandidate.
SpecCandidate == (InitRobots \/ InitCandidate) /\ [][NextRobots]_vars

(***************************************************************************)
(* SitemapParser.extract_urls: the choice of a parser for a response, and  *)
(* the parsers.  The content is its text, with what ET.fromstring and the  *)
(* loop of _parse_xml_sitemap make of it and what json.loads and the loops *)
(* of _parse_json_sitemap make of it.                                      *)
(***************************************************************************)
XmlWindow == 200    \* content[:200]
AutoWindow == 100   \* content[:100]

Parsed(found) == [raises |-> None, urls |-> found]
Failed(message) == [raises |-> Some(message), urls |-> <<>>]
Content(text, xml, json) == [text |-> text, xml |-> xml, json |-> json]

\* Runs of 20, 120 and 200 blanks.
Blanks20 == "                    "
Blanks120 == Blanks20 \o Blanks20 \o Blanks20 \o Blanks20 \o Blanks20 \o Blanks20
Blanks200 == Blanks120 \o Blanks20 \o Blanks20 \o Blanks20 \o Blanks20

NoXml == Failed("syntax error: line 1, column 0")
NoJson == Failed("Expecting value: line 1 column 1 (char 0)")
OneUrl == Parsed(<<"https://example.com/a">>)
ChildFails == [raises |-> Some("Failed to fetch sitemap https://example.com/missing.xml: 404 Client Error: Not Found"), urls |-> <<>>, wrapped |-> FALSE]

\* A <urlset> of one URL: with an XML declaration, bare, with a namespace
\* prefix, after 120 and after 200 blanks; two documents that are not well
\* formed; an index whose child cannot be fetched, bare and with a prefix; a
\* list of lines; two JSON documents; a text that is none of these.
Contents ==
    { Content("<?xml version='1.0'?><urlset><url><loc>https://example.com/a</loc></url></urlset>", OneUrl, NoJson),
      Content("<urlset><url><loc>https://example.com/a</loc></url></urlset>", OneUrl, NoJson),
      Content("<s:urlset xmlns:s='x'><s:url><s:loc>https://example.com/a</s:loc></s:url></s:urlset>", OneUrl, NoJson),
      Content(Blanks120 \o "<urlset><url><loc>https://example.com/a</loc></url></urlset>", OneUrl, NoJson),
      Content(Blanks200 \o "<urlset><url><loc>https://example.com/a</loc></url></urlset>", OneUrl, NoJson),
      Content("<urlset><url>", Failed("no element found: line 1, column 13"), NoJson),
      Content("<s:urlset xmlns:s='x'><s:url>", Failed("no element found: line 1, column 29"), NoJson),
      Content("<sitemapindex><sitemap><loc>https://example.com/missing.xml</loc></sitemap></sitemapindex>", ChildFails, NoJson),
      Content("<s:sitemapindex xmlns:s='x'><s:sitemap><s:loc>https://example.com/missing.xml</s:loc></s:sitemap></s:sitemapindex>", ChildFails, NoJson),
      Content("https://example.com/a\n  https://example.com/b \nnot a url\n", NoXml, NoJson),
      Content("[\"https://example.com/a\"]", NoXml, OneUrl),
      Content("{\"urls\": [{\"loc\": \"https://example.com/a\"}]}", NoXml, OneUrl),
      Content("garbage", NoXml, NoJson) }

\* response.headers.get('content-type', '').lower()
SitemapContentTypes ==
    {"", "application/xml", "text/xml; charset=utf-8", "text/plain",
     "text/plain; charset=utf-8", "application/json", "text/html",
     "application/octet-stream"}

_is_xml_content(content, content_type) ==
    \/ HasPart(content_type, "xml")
    \/ startswith(content.text, "<?xml")
    \/ HasPart(Prefix(content.text, XmlWindow), "<urlset")
    \/ HasPart(Prefix(content.text, XmlWindow), "<sitemapindex")

_is_text_content(content_type) == HasPart(content_type, "text/plain")

_is_json_content(content_type) == HasPart(content_type, "json")

\* An ET.ParseError is raised anew as "XML parsing error: ..."; the exception
\* of a child's extract_urls passes as it is.
_parse_xml_sitemap(content) ==
    IF content.xml.raises = None THEN content.xml
    ELSE IF "wrapped" \in DOMAIN content.xml THEN Failed(content.xml.raises[1])
    ELSE Failed("XML parsing error: " \o content.xml.raises[1])

RECURSIVE StrippedLines(_)
\* line.strip() for each line
StrippedLines(lines) ==
    IF lines = <<>> THEN <<>> ELSE <<strip(Head(lines))>> \o StrippedLines(Tail(lines))

\* `if line and line.startswith(('http://', 'https://'))`
IsUrlLine(line) ==
    line /= "" /\ (startswith(line, "http://") \/ startswith(line, "https://"))

\* decode('utf-8', errors='ignore') raises nothing.
_parse_text_sitemap(content) ==
    Parsed(SelectSeq(StrippedLines(split(strip(content.text), "\n")), IsUrlLine))

_parse_json_sitemap(content) ==
    IF content.json.raises = None THEN content.json
    ELSE Failed("JSON parsing error: " \o content.json.raises[1])

\* What a choice gave: the parsers tried, in order, and the outcome.
Choice(kind, tried, outcome) ==
    [format |-> kind, tried |-> tried, raises |-> outcome.raises, urls |-> outcome.urls]

\* _auto_detect_and_parse trying the XML parser whatever the content begins with.
_auto_detect_and_parse_always_xml(content) ==
    IF _parse_xml_sitemap(content).raises = None
    THEN Choice("auto", <<"xml">>, _parse_xml_sitemap(content))
    ELSE IF _parse_text_sitemap(content).raises = None
    THEN Choice("auto", <<"xml", "text">>, _parse_text_sitemap(content))
    ELSE IF _parse_json_sitemap(content).raises = None
    THEN Choice("auto", <<"xml", "text", "json">>, _parse_json_sitemap(content))
    ELSE Choice("auto", <<"xml", "text", "json">>, Parsed(<<>>))

\* The three try blocks, each `except: pass`, and the final `return []`.
_auto_detect_and_parse(content) ==
    LET first == IF HasPart(Prefix(content.text, AutoWindow), "<") THEN <<"xml">> ELSE <<>>
    IN  IF first /= <<>> /\ _parse_xml_sitemap(content).raises = None
        THEN Choice("auto", first, _parse_xml_sitemap(content))
        ELSE IF _parse_text_sitemap(content).raises = None
        THEN Choice("auto", first \o <<"text">>, _parse_text_sitemap(content))
        ELSE IF _parse_json_sitemap(content).raises = None
        THEN Choice("auto", first \o <<"text", "json">>, _parse_json_sitemap(content))
        ELSE Choice("auto", first \o <<"text", "json">>, Parsed(<<>>))

\* `except Exception as e: raise Exception(f"Failed to parse sitemap ...")`
Wrapped(outcome) ==
    IF outcome.raises = None THEN outcome
    ELSE Failed("Failed to parse sitemap " \o document.url \o ": " \o outcome.raises[1])

\* requests.get returned a response for the sitemap.
InitFormat ==
    /\ IdleProcessor
    /\ NothingNormalized
    /\ NothingDiscovered
    /\ url_source = "From Website Sitemaps"
    /\ manual_urls = <<>>
    /\ sitemaps = <<>>
    /\ selected_sitemaps = <<>>
    /\ extracted_urls = <<>>
    /\ app = "idle"
    /\ sel = 0
    /\ all_urls = {}
    /\ st_error = <<>>
    /\ processed_sitemaps = {}
    /\ stack = <<>>
    /\ fetched = <<>>
    /\ raised = None
    /\ returned = <<>>
    /\ document \in {[url |-> PostsUrl, content_type |-> t, content |-> c] :
                        t \in SitemapContentTypes, c \in Contents}
    /\ chosen = None
    /\ infos = <<>>

\* `if self._is_xml_content(content, content_type)`
ParseAsXml ==
    /\ document /= <<>>
    /\ chosen = None
    /\ _is_xml_content(document.content, document.content_type)
    /\ chosen' = Some(Choice("xml", <<"xml">>, Wrapped(_parse_xml_sitemap(document.content))))
    /\ UNCHANGED <<processor, given, normalized, discovery, source, document, infos, sitemaps,
                   selected_sitemaps, extracted_urls, app, sel, all_urls, st_error,
                   processed_sitemaps, stack, fetched, raised, returned>>

\* `elif self._is_text_content(content_type)`
ParseAsText ==
    /\ document /= <<>>
    /\ chosen = None
    /\ ~_is_xml_content(document.content, document.content_type)
    /\ _is_text_content(document.content_type)
    /\ chosen' = Some(Choice("text", <<"text">>, Wrapped(_parse_text_sitemap(document.content))))
    /\ UNCHANGED <<processor, given, normalized, discovery, source, document, infos, sitemaps,
                   selected_sitemaps, extracted_urls, app, sel, all_urls, st_error,
                   processed_sitemaps, stack, fetched, raised, returned>>

\* `elif self._is_json_content(content_type)`
ParseAsJson ==
    /\ document /= <<>>
    /\ chosen = None
    /\ ~_is_xml_content(document.content, document.content_type)
    /\ ~_is_text_content(document.content_type)
    /\ _is_json_content(document.content_type)
    /\ chosen' = Some(Choice("json", <<"json">>, Wrapped(_parse_json_sitemap(document.content))))
    /\ UNCHANGED <<processor, given, normalized, discovery, source, document, infos, sitemaps,
                   selected_sitemaps, extracted_urls, app, sel, all_urls, st_error,
                   processed_sitemaps, stack, fetched, raised, returned>>

\* `else: return self._auto_detect_and_parse(content)`
AutoDetect ==
    /\ document /= <<>>
    /\ chosen = None
    /\ ~_is_xml_content(document.content, document.content_type)
    /\ ~_is_text_content(document.content_type)
    /\ ~_is_json_content(document.content_type)
    /\ chosen' = Some(_auto_detect_and_parse(document.content))
    /\ UNCHANGED <<processor, given, normalized, discovery, source, document, infos, sitemaps,
                   selected_sitemaps, extracted_urls, app, sel, all_urls, st_error,
                   processed_sitemaps, stack, fetched, raised, returned>>

NextFormat ==
    \/ ParseAsXml
    \/ ParseAsText
    \/ ParseAsJson
    \/ AutoDetect

SpecFormat == InitFormat /\ [][NextFormat]_vars

(***************************************************************************)
(* The claims.                                                             *)
(***************************************************************************)
\* The 'URL' field of a record ("" for a result that is no dictionary).
RecordUrl(r) == IF "URL" \in DOMAIN r THEN r["URL"] ELSE ""

\* How often url occurs in the input list, and among the records' 'URL' fields.
Requested(url) == Cardinality({k \in 1..Len(urls) : urls[k] = url})
Recorded(url) == Cardinality({n \in 1..Len(results) : RecordUrl(results[n]) = url})

\* C1: the list process_urls returns has exactly as many records as the input list
\* has URLs, and every URL is the 'URL' field of as many records as it has
\* occurrences in the input (a one-to-one mapping): nothing dropped, nothing
\* duplicated, whatever each fetch did.  Before the return no URL has more records
\* than occurrences.
C1_Completeness ==
    /\ \A n \in 1..Len(results) : Recorded(RecordUrl(results[n])) <= Requested(RecordUrl(results[n]))
    /\ pc = "returned" =>
        /\ Len(results) = Len(urls)
        /\ \A k \in 1..Len(urls) : Recorded(urls[k]) = Requested(urls[k])

\* process_urls returned for two different URLs, one whose every attempt failed
\* at the transport level and one whose worker raised another exception.
C1_Witness ==
    /\ pc = "returned"
    /\ Len(urls) = 2 /\ urls[1] /= urls[2]
    /\ Len(task[1].failures) = max_retries
    /\ task[2].exception /= None
\* The number of session.get calls in a trace.
Gets(trace) == Cardinality({p \in 1..Len(trace) : trace[p] = "get"})

\* C2: a task calls session.get at most max_retries times; a get that is not the
\* first comes right after one backoff sleep, which comes right after a get that
\* ended in a transport exception; a sleep is only started while fewer than
\* max_retries gets have been made, so none follows the last allowed attempt.
C2_AttemptLoop ==
    \A k \in Futures :
        LET trace == task[k].trace
        IN  /\ Gets(trace) <= max_retries
            /\ task[k].state = "running" =>
                   Gets(trace) = task[k].attempt /\ task[k].attempt < max_retries
            /\ \A p \in 1..Len(trace) :
                /\ trace[p] = "get" =>
                       /\ p < Len(trace)
                       /\ trace[p + 1] \in {"response", "RequestException", "Exception"}
                       /\ p > 1 => /\ p > 3
                                   /\ trace[p - 1] = "sleep"
                                   /\ trace[p - 2] = "RequestException"
                /\ trace[p] = "sleep" =>
                       /\ p > 2
                       /\ trace[p - 1] = "RequestException"
                       /\ Gets(SubSeq(trace, 1, p)) < max_retries
                       /\ p < Len(trace) => trace[p + 1] = "get"

\* A task that failed once, slept once, and got a response on its second and last
\* allowed attempt.
C2_Witness ==
    /\ max_retries = 2
    /\ task[1].state = "done"
    /\ task[1].trace = <<"get", "RequestException", "sleep", "get", "response">>
\* C3: a task whose max_retries attempts all ended in a transport exception is
\* done with one record: status Error, the detail "Request failed: " followed by
\* the message of the last failure, no HTTP status, no canonical URL; that record,
\* and no other, is what process_urls appends for it.
C3_ExhaustedRetries ==
    \A k \in Futures :
        Len(task[k].failures) = max_retries =>
            /\ task[k].state = "done"
            /\ task[k].exception = None
            /\ task[k].result /= None
            /\ LET r == task[k].result[1]
               IN  /\ r["URL"] = urls[k]
                   /\ r["Status"] = "Error"
                   /\ r["Error"] = Some("Request failed: " \o task[k].failures[max_retries])
                   /\ r["HTTP Status"] = None
                   /\ r["Canonical URL"] = None
                   /\ k \in yielded => results = <<r>>

\* Two attempts allowed, the first timed out, the second was refused, and
\* process_urls has returned.
C3_Witness ==
    /\ max_retries = 2
    /\ task[1].failures = <<"timed out", "connection refused">>
    /\ pc = "returned"
\* The last get of the trace is the one that returned a response, and nothing
\* follows it.
EndsWithResponse(trace) ==
    /\ Len(trace) >= 2
    /\ trace[Len(trace) - 1] = "get"
    /\ trace[Len(trace)] = "response"
    /\ \A p \in 1..(Len(trace) - 1) : trace[p] /= "response"

\* C4: a task that received a response whose status is not 200 is done at once,
\* whatever attempts remain: the get that returned the response is its last, and
\* its record has status Error, the detail "HTTP <code>" and HTTP status <code>.
C4_HttpErrorTerminal ==
    \A k \in Futures :
        (task[k].response /= None /\ task[k].response[1].status_code /= 200) =>
            /\ task[k].state = "done"
            /\ EndsWithResponse(task[k].trace)
            /\ Gets(task[k].trace) = Len(task[k].failures) + 1
            /\ task[k].result /= None
            /\ LET r == task[k].result[1]
                   code == task[k].response[1].status_code
               IN  /\ r["Status"] = "Error"
                   /\ r["Error"] = Some("HTTP " \o ToString(code))
                   /\ code = 404 => r["Error"] = Some("HTTP 404")
                   /\ r["HTTP Status"] = Some(code)
                   /\ r["Canonical URL"] = None
                   /\ r["URL"] = urls[k]

\* Of two attempts allowed the first got a 404, and the run returned its record.
C4_Witness ==
    /\ max_retries = 2
    /\ task[1].trace = <<"get", "response">>
    /\ task[1].response /= None /\ task[1].response[1].status_code = 404
    /\ pc = "returned"
    /\ Len(results) = 1 /\ results[1]["Error"] = Some("HTTP 404")

AnalysisStatuses == {"Match", "Mismatch", "Missing", "Multiple", "Empty", "Error"}

\* C5: a task that received a 200 response is done with the outcome of the
\* canonical analysis of that response, whatever it is, and the get that
\* returned the response is its last.
C5_OkTerminal ==
    \A k \in Futures :
        (task[k].response /= None /\ task[k].response[1].status_code = 200) =>
            /\ task[k].state = "done"
            /\ EndsWithResponse(task[k].trace)
            /\ Gets(task[k].trace) = Len(task[k].failures) + 1
            /\ task[k].result /= None
            /\ LET r == task[k].result[1]
               IN  /\ r = _analyze_canonical_tag(urls[k], task[k].response[1],
                                                 task[k].elapsed)
                   /\ r["Status"] \in AnalysisStatuses
                   /\ r["HTTP Status"] = Some(200)
                   /\ r["Status"] = "Error" =>
                          Prefix(r["Error"][1], 21) = "HTML parsing failed: "

\* Of two attempts allowed the first got a 200 page that could not be parsed: the
\* task is done with the parsing Error after that one get.
C5_Witness ==
    /\ max_retries = 2
    /\ task[1].trace = <<"get", "response">>
    /\ task[1].state = "done"
    /\ task[1].result /= None
    /\ task[1].result[1]["Status"] = "Error"
    /\ task[1].result[1]["Error"] = Some("HTML parsing failed: malformed markup")
    /\ task[1].result[1]["HTTP Status"] = Some(200)
\* The record of the run that gets `response` for `url` on its first attempt: no
\* backoff was slept, so the response time is the time of that one get.
FirstAttemptRecord(url, response) == _analyze_canonical_tag(url, response, 0)

\* C6: the record of a task that got a 200 response after one or more transport
\* failures has the keys of the record of the run that gets the same response for
\* the same URL on its first attempt, and the same value under every key but
\* 'Response Time'; a task without failures has that record itself.
C6_RetryThenSuccess ==
    \A k \in Futures :
        (/\ task[k].response /= None /\ task[k].response[1].status_code = 200
         /\ task[k].result /= None) =>
            LET r == task[k].result[1]
                first == FirstAttemptRecord(urls[k], task[k].response[1])
            IN  /\ Len(task[k].failures) < max_retries
                /\ task[k].failures = <<>> => r = first
                /\ DOMAIN r = DOMAIN first
                /\ \A key \in DOMAIN first \ {"Response Time"} : r[key] = first[key]

\* One timeout, then a 200 page whose canonical matches: the record is the Match
\* record, one second of backoff later.
C6_Witness ==
    /\ task[1].failures = <<"timed out">>
    /\ task[1].state = "done"
    /\ task[1].result /= None
    /\ task[1].result[1]["Status"] = "Match"
    /\ task[1].result[1]["Error"] = None
    /\ task[1].result[1]["Response Time"] = Some(1)
    /\ pc = "returned"
\* C7: with a progress callback, the n-th invocation is (n, len(urls), URL of the
\* n-th record appended); an invocation follows each append before the next
\* append, and process_urls returns after len(urls) invocations.
C7_ProgressCallback ==
    progress_callback =>
        /\ Len(calls) <= Len(results)
        /\ Len(results) <= Len(calls) + 1
        /\ (Len(results) = Len(calls) + 1) <=> (pc = "callback")
        /\ \A n \in 1..Len(calls) :
               calls[n] = <<n, Len(urls), RecordUrl(results[n])>>
        /\ pc = "callback" => urls[cur] = RecordUrl(results[Len(results)])
        /\ pc = "returned" => Len(calls) = Len(urls)

\* Two different URLs, the second finished first: the callback was told
\* (1, 2, second URL) then (2, 2, first URL).
C7_Witness ==
    /\ pc = "returned"
    /\ Len(urls) = 2
    /\ urls[1] /= urls[2]
    /\ calls = <<<<1, 2, urls[2]>>, <<2, 2, urls[1]>>>>

\* The tasks whose 200 response was parsed and analysed.
Analysed == {k \in Futures : /\ task[k].response /= None
                             /\ task[k].response[1].status_code = 200
                             /\ task[k].response[1].content.parse_error = None
                             /\ task[k].result /= None}

\* The canonical link tags of the page task k got.
CanonicalTags(k) == find_all(task[k].response[1].content)

\* The href of the single canonical tag of the page task k got, stripped.
CanonicalHref(k) == strip(get_href(CanonicalTags(k)[1]))

\* C8: the analysis classifies by the number of canonical link tags: none is
\* Missing; more than one is Multiple, whatever the hrefs; one whose href is
\* absent, empty or blank is Empty; Match and Mismatch come only from one tag
\* with a non-empty href.
C8_TagCount ==
    \A k \in Analysed :
        LET r == task[k].result[1]
            n == Len(CanonicalTags(k))
        IN  /\ (n = 0) <=> (r["Status"] = "Missing")
            /\ (n > 1) <=> (r["Status"] = "Multiple")
            /\ (n = 1 /\ CanonicalHref(k) = "") <=> (r["Status"] = "Empty")
            /\ r["Status"] \in {"Match", "Mismatch"} => (n = 1 /\ CanonicalHref(k) /= "")
            /\ task[k].response[1].content \in
                   { Page(<<Link("canonical", Some("/p")), Link("canonical", Some("/p"))>>),
                     Page(<<Link("canonical", None), Link("canonical", Some(""))>>) }
                       => r["Status"] = "Multiple"
            /\ task[k].response[1].content \in
                   { Page(<<Link("canonical", None)>>),
                     Page(<<Link("canonical", Some("  "))>>) }
                       => r["Status"] = "Empty"
            /\ task[k].response[1].content \in
                   { Page(<<>>), Page(<<Link("stylesheet", Some("/p"))>>) }
                       => r["Status"] = "Missing"

\* A page with two canonical tags that declare the same href: Multiple, with
\* both hrefs listed.
C8_Witness ==
    /\ 1 \in Analysed
    /\ task[1].response[1].content =
           Page(<<Link("canonical", Some("/p")), Link("canonical", Some("/p"))>>)
    /\ task[1].result[1]["Status"] = "Multiple"
    /\ task[1].result[1]["Canonical URL"] = Some("/p, /p")

\* The tasks whose page has exactly one canonical tag, with a non-empty href.
OneHref == {k \in Analysed : Len(CanonicalTags(k)) = 1 /\ CanonicalHref(k) /= ""}

\* The exception raised while the href of task k is resolved and the two URLs
\* are normalised (None: none).
ComparisonRaises(k) ==
    LET final == task[k].response[1].url
    IN  IF urljoin_raises(final, CanonicalHref(k)) /= None
        THEN urljoin_raises(final, CanonicalHref(k))
        ELSE IF _normalize_url_raises(final) /= None
        THEN _normalize_url_raises(final)
        ELSE _normalize_url_raises(urljoin(final, CanonicalHref(k)))

\* C9 as stated: for a page with exactly one non-empty canonical href the status
\* is Match when the normalised final URL and the normalised canonical URL are
\* the same string, and Mismatch otherwise.
C9_MatchIffNormalizedEqual ==
    \A k \in OneHref :
        LET r == task[k].result[1]
        IN  /\ r["Status"] \in {"Match", "Mismatch"}
            /\ (r["Status"] = "Match") <=>
                   (_normalize_url(task[k].response[1].url)
                      = _normalize_url(urljoin(task[k].response[1].url, CanonicalHref(k))))

\* C9, amended: for a page with exactly one non-empty canonical href, when
\* resolving the href or normalising a URL raises an exception the status is
\* Error with the detail "HTML parsing failed: <message>"; otherwise the status is
\* Match when the normalised final URL and the normalised canonical URL of the
\* record are the same string and Mismatch when they are not.  The comparison
\* distinguishes letter case in the path and in the query, not in the host.
C9_MatchIffNormalizedEqualOrError ==
    \A k \in OneHref :
        LET r == task[k].result[1]
        IN  IF ComparisonRaises(k) /= None
            THEN /\ r["Status"] = "Error"
                 /\ r["Error"] = Some("HTML parsing failed: " \o ComparisonRaises(k)[1])
            ELSE /\ r["Status"] \in {"Match", "Mismatch"}
                 /\ (r["Status"] = "Match") <=>
                        (_normalize_url(r["Final URL"]) = _normalize_url(r["Canonical URL"][1]))
                 /\ (r["Final URL"] = "https://example.com/p?x=1" /\ ignore_query_params) =>
                        /\ r["Canonical URL"] = Some("https://example.com/p") =>
                               r["Status"] = "Match"
                        /\ r["Canonical URL"] = Some("https://example.com/P") =>
                               r["Status"] = "Mismatch"
                 /\ (r["Final URL"] = "https://example.com/p?x=1" /\ ~ignore_query_params) =>
                        /\ r["Canonical URL"] = Some("https://example.com/p?x=1") =>
                               r["Status"] = "Match"
                        /\ r["Canonical URL"] = Some("https://example.com/p?X=1") =>
                               r["Status"] = "Mismatch"
                 /\ (/\ r["Final URL"] = "https://Example.com/Page/"
                     /\ r["Canonical URL"] = Some("https://example.com/Page")) =>
                        ((r["Status"] = "Match") <=> remove_trailing_slash)

\* The final URL and a canonical that differ in the case of a path letter only,
\* the query ignored: Mismatch.
C9_Witness ==
    /\ 1 \in OneHref
    /\ ignore_query_params
    /\ task[1].result[1]["Status"] = "Mismatch"
    /\ task[1].response[1].url = "https://example.com/p?x=1"
    /\ task[1].result[1]["Canonical URL"] = Some("https://example.com/P")

\* C10: the record's 'URL' is the requested URL and its 'Final URL' the URL of
\* the response; a relative href is resolved against the URL of the response,
\* and the comparison is with the URL of the response: requested U, redirected
\* to F, canonical F is Match and canonical U is Mismatch.
C10_FinalUrl ==
    \A k \in OneHref :
        LET r == task[k].result[1]
            U == "http://example.com/old"
            F == "https://example.com/p?x=1"
            G == "https://Example.com/Page/"
            final == task[k].response[1].url
            href == CanonicalHref(k)
        IN  /\ r["URL"] = urls[k]
            /\ r["Status"] \in {"Match", "Mismatch"} => r["Final URL"] = final
            /\ (urls[k] = U /\ final = F) =>
                   /\ href = F => r["Status"] = "Match" /\ r["Canonical URL"] = Some(F)
                   /\ href = U => r["Status"] = "Mismatch" /\ r["Canonical URL"] = Some(U)
                   /\ href = "old" =>
                          /\ r["Canonical URL"] = Some("https://example.com/old")
                          /\ r["Status"] = "Mismatch"
                   /\ href = "/p#top" =>
                          /\ r["Canonical URL"] = Some("https://example.com/p#top")
                          /\ (r["Status"] = "Match") <=> ignore_query_params
            /\ (final = G /\ href = "/p#top") =>
                   r["Canonical URL"] = Some("https://Example.com/p#top")
            /\ (final = G /\ href = "old") =>
                   r["Canonical URL"] = Some("https://Example.com/Page/old")

\* U was requested and redirected to F; the page declares the relative
\* canonical "old": it is resolved against F, and the record is a Mismatch
\* that still names U as its URL.
C10_Witness ==
    /\ 1 \in OneHref
    /\ urls[1] = "http://example.com/old"
    /\ task[1].response[1].url = "https://example.com/p?x=1"
    /\ CanonicalHref(1) = "old"
    /\ task[1].result[1]["URL"] = "http://example.com/old"
    /\ task[1].result[1]["Final URL"] = "https://example.com/p?x=1"
    /\ task[1].result[1]["Canonical URL"] = Some("https://example.com/old")
    /\ task[1].result[1]["Status"] = "Mismatch"
    /\ pc = "returned"
\* C11: every record of the results list has a 'Status', and it is one of
\* Match, Mismatch, Missing, Multiple, Empty, Error.
C11_StatusDomain ==
    \A n \in 1..Len(results) :
        /\ "Status" \in DOMAIN results[n]
        /\ results[n]["Status"] \in AnalysisStatuses

\* session.get raised something that is no RequestException: the run returned
\* the record built in process_urls, an Error.
C11_Witness ==
    /\ pc = "returned"
    /\ task[1].exception = Some("unexpected")
    /\ results = <<Record(urls[1], None, "Error",
                          Some("Processing failed: unexpected"), None, None)>>
\* C12: normalising a normalised URL changes nothing:
\* _normalize_url(_normalize_url(u)) = _normalize_url(u), for every URL and every
\* combination of the three flags.
C12_Idempotent ==
    Len(normalized) >= 2 => normalized[2] = normalized[1]

\* C12 for the URLs without ";" in the path: normalising a normalised URL
\* changes nothing, paths made of slashes only or ending in several slashes
\* included.
C12_IdempotentWithoutParams ==
    (Len(normalized) >= 2 /\ ~Contains(given.path, ";")) =>
        normalized[2] = normalized[1]

\* A path of two slashes, trailing slashes removed: normalised to no path at
\* all, and again to the same.
C12_Witness ==
    /\ remove_trailing_slash
    /\ given.path = "//"
    /\ given.scheme = "https" /\ given.userinfo = "" /\ given.port = ""
    /\ given.host = "example.com" /\ given.query = None
    /\ normalized = <<"https://example.com", "https://example.com">>
\* The rule set for normalize(url, config), applied to the components of u: the
\* fragment goes; http becomes https when force_https; the trailing slashes of a
\* path other than "/" go when remove_trailing_slash; the query goes when
\* ignore_query_params; the host, and only the host, is lower-cased.  Parsing
\* reads the scheme without regard to case, and a URL is put together without
\* the "?" of an empty query.
Reference(u) ==
    TextOf(Url(IF force_https /\ lower(u.scheme) = "http" THEN "https"
               ELSE lower(u.scheme),
               u.userinfo,
               lower(u.host),
               u.port,
               IF /\ remove_trailing_slash
                  /\ u.path /= "" /\ Ch(u.path, Len(u.path)) = "/"
                  /\ u.path /= "/"
               THEN rstrip(u.path, "/") ELSE u.path,
               IF ignore_query_params \/ u.query = Some("") THEN None ELSE u.query,
               None))

\* C13 as stated: _normalize_url(u) is what the rule set gives, for every URL
\* and every combination of the flags.
C13_EqualsReference ==
    Len(normalized) >= 1 => normalized[1] = Reference(given)

\* C13 for the URLs without userinfo and without ";" in the path:
\* _normalize_url(u) is what the rule set gives.
C13_EqualsReferenceOnPlainUrls ==
    (/\ Len(normalized) >= 1
     /\ given.userinfo = ""
     /\ ~Contains(given.path, ";")) =>
        normalized[1] = Reference(given)

\* The default flags: scheme, host, trailing slashes and fragment change, the
\* port, the query and the case of path and query do not.
C13_Witness ==
    /\ force_https /\ remove_trailing_slash /\ ~ignore_query_params
    /\ given = Url("http", "", "Example.COM", "8080", "/P/q//",
                   Some("X=1&next=/"), Some("top"))
    /\ normalized = <<"https://example.com:8080/P/q?X=1&next=/">>
\* C14: for a page at https://example.com/p?x=1 whose single canonical is
\* https://example.com/p the status is Match when ignore_query_params is set and
\* Mismatch when it is not, whatever the other two flags.
C14_QueryToggle ==
    \A k \in OneHref :
        (/\ task[k].response[1].url = "https://example.com/p?x=1"
         /\ CanonicalHref(k) = "https://example.com/p") =>
            task[k].result[1]["Status"] =
                IF ignore_query_params THEN "Match" ELSE "Mismatch"

\* The query ignored, the other two flags off: Match.
C14_Witness ==
    /\ 1 \in OneHref
    /\ ignore_query_params /\ ~force_https /\ ~remove_trailing_slash
    /\ task[1].response[1].url = "https://example.com/p?x=1"
    /\ CanonicalHref(1) = "https://example.com/p"
    /\ task[1].result[1]["Status"] = "Match"
    /\ task[1].result[1]["Error"] = None

\* The sitemap's fetch or parse fails.
Fails(u) == Answer(u).kind \in {"RequestException", "ParseError"}

\* The sitemap index u lists v.
Lists(u, v) == Answer(u).kind = "sitemapindex" /\ v \in Range(Answer(u).locs)

\* The extraction step is over: every selected sitemap's call returned a list,
\* or a fetch or parse failed and the exception reached the app.
ExtractionOver ==
    \/ app = "done" /\ Len(returned) = Len(selected_sitemaps)
    \/ app = "except" /\ \E n \in 1..Len(fetched) : Fails(fetched[n])

\* C15: on every sitemap-index graph, cycles and self-references included, and
\* when every fetch returns, the extract_urls calls of the extraction step all
\* terminate: each returns a (finite) list, unless a fetch or parse failed.
C15_Terminates == <>ExtractionOver

\* The index and the posts sitemap list each other, the index was selected
\* and its expansion returned.
C15_Witness ==
    /\ Lists(IndexUrl, PostsUrl)
    /\ Lists(PostsUrl, IndexUrl)
    /\ selected_sitemaps[1] = IndexUrl
    /\ app = "done"
    /\ Len(returned) = Len(selected_sitemaps)
    /\ PostsUrl \in Range(fetched)

\* A call of extract_urls for a processed URL leaves the fetches and the
\* depth of the stack as they are and hands its caller the empty list.
ProcessedReturnsEmpty ==
    (Calling /= None /\ Calling[1] \in processed_sitemaps) =>
        /\ fetched' = fetched
        /\ Len(stack') = Len(stack)
        /\ processed_sitemaps' = processed_sitemaps
        /\ IF stack = <<>>
           THEN returned' = Append(returned, <<>>) /\ all_urls' = all_urls
           ELSE stack'[Len(stack)].urls = Top.urls

\* C16: with one SitemapParser no sitemap URL is fetched twice; a URL is in
\* processed_sitemaps before it is fetched; a call for a processed URL returns
\* [] at once, without a request.
C16_FetchedOnce ==
    /\ [](\A m, n \in 1..Len(fetched) : fetched[m] = fetched[n] => m = n)
    /\ [](Range(fetched) \subseteq processed_sitemaps)
    /\ [](\A n \in 1..Len(stack) : stack[n].url \in processed_sitemaps)
    /\ [][ProcessedReturnsEmpty]_vars

\* A processed sitemap was asked for again, by the index that lists itself
\* and by the app, and the run went on.
C16_Witness ==
    /\ app = "done"
    /\ Lists(IndexUrl, IndexUrl)
    /\ \E n \in 1..Len(returned) :
        returned[n] = <<>> /\ selected_sitemaps[n] \in Range(fetched)

RECURSIVE Expansion(_, _), ExpansionOfAll(_, _)
\* The list extract_urls(u) is to return, and the sitemaps visited after it,
\* when those in `visited` were visited before: nothing for a visited u, the
\* <loc> texts of a <urlset>, the children's lists in document order for an index.
Expansion(u, visited) ==
    IF u \in visited THEN [urls |-> <<>>, visited |-> visited]
    ELSE IF Answer(u).kind = "sitemapindex"
    THEN ExpansionOfAll(Answer(u).locs, visited \cup {u})
    ELSE [urls |-> Answer(u).locs, visited |-> visited \cup {u}]

ExpansionOfAll(children, visited) ==
    IF children = <<>> THEN [urls |-> <<>>, visited |-> visited]
    ELSE LET first == Expansion(Head(children), visited)
             others == ExpansionOfAll(Tail(children), first.visited)
         IN  [urls |-> first.urls \o others.urls, visited |-> others.visited]

RECURSIVE Expansions(_, _)
\* The lists the calls for the selected sitemaps are to return, one after the other.
Expansions(selected, visited) ==
    IF selected = <<>> THEN <<>>
    ELSE LET first == Expansion(Head(selected), visited)
         IN  <<first.urls>> \o Expansions(Tail(selected), first.visited)

\* The index over the posts sitemap (3 URLs) and the pages sitemap (5 URLs),
\* selected first.
IndexOverTwoLeaves ==
    /\ selected_sitemaps[1] = IndexUrl
    /\ sitemaps[IndexUrl] = SitemapIndex(<<PostsUrl, PagesUrl>>)
    /\ sitemaps[PostsUrl] = UrlSet(Three)
    /\ sitemaps[PagesUrl] \in {UrlSet(Five), UrlSet(FiveOverlap)}

\* C17: when nothing fails, the expansion of an index is the concatenation, in
\* document order, of its children's expansions; an index over leaves of 3 and
\* 5 URLs returns 8 URLs, also when the leaves share a URL.
C17_Concatenation ==
    app = "done" =>
        /\ returned = Expansions(selected_sitemaps, {})
        /\ IndexOverTwoLeaves =>
            /\ Len(returned[1]) = 8
            /\ returned[1] = Three \o sitemaps[PagesUrl].locs

\* The index over two leaves that share a URL returned 8 URLs, 7 of them distinct.
C17_Witness ==
    /\ app = "done"
    /\ IndexOverTwoLeaves
    /\ Len(returned[1]) = 8
    /\ Cardinality(Range(returned[1])) = 7

\* C18: at the end of the extraction step the URLs of every selected sitemap
\* whose own expansion does not fail are in the extracted URL set, whatever
\* happened to the other selected sitemaps.
C18_OthersStillExpanded ==
    app \in {"done", "except"} =>
        \A n \in 1..Len(selected_sitemaps) :
            Answer(selected_sitemaps[n]).kind = "urlset" =>
                /\ selected_sitemaps[n] \in Range(fetched)
                /\ Range(Answer(selected_sitemaps[n]).locs) \subseteq Range(extracted_urls)

\* C18, as far as it holds: the first failure ends the step.  extracted_urls
\* keeps its value, one error is shown and no call is made after the failing
\* one; without a failure extracted_urls is the union of the returned lists.
C18_FirstFailureEndsStep ==
    /\ app = "except" =>
        /\ extracted_urls = <<>>
        /\ Len(st_error) = 1
        /\ Len(returned) < Len(selected_sitemaps)
        /\ Fails(fetched[Len(fetched)])
        /\ \A n \in 1..(Len(fetched) - 1) : ~Fails(fetched[n])
    /\ app = "done" =>
        /\ st_error = <<>>
        /\ Len(returned) = Len(selected_sitemaps)
        /\ Range(extracted_urls) = UNION {Range(returned[n]) : n \in 1..Len(returned)}

\* Two leaves were selected, the first was expanded and the second failed:
\* the step ended with an error and nothing was extracted.
C18_Witness ==
    /\ app = "except"
    /\ Len(selected_sitemaps) = 2
    /\ Len(returned) = 1
    /\ returned[1] /= <<>>
    /\ extracted_urls = <<>>

\* discover_sitemaps is over, by a return or by an exception.
DiscoveryOver == disc \in {"returned", "raised"}

\* C19: discover_sitemaps raises exactly when the GET of robots.txt fails at
\* the network level, and then returns nothing; nothing else makes it raise.
C19_RaisesIffGetFails ==
    DiscoveryOver =>
        /\ disc = "raised" <=> (base_url /= "" /\ robots.raises /= None)
        /\ disc = "raised" => discovered = None

\* C19, as far as it holds: a failing GET of robots.txt always ends in the
\* exception "Failed to fetch robots.txt ..." and never in a list; another
\* status and the HEADs' failures never raise; the only other exception is a
\* ValueError of urlparse(domain) or of urljoin on a relative directive.
C19_RaisesIffGetFailsOrValueError ==
    DiscoveryOver =>
        /\ (base_url /= "" /\ robots.raises /= None) =>
            /\ disc = "raised"
            /\ discovered = None
            /\ probed = <<>>
            /\ discover_raised[1].type = "Exception"
            /\ startswith(discover_raised[1].message,
                          "Failed to fetch robots.txt from https://example.com/robots.txt: ")
        /\ (disc = "raised" /\ ~(base_url /= "" /\ robots.raises /= None)) =>
            /\ discovered = None
            /\ discover_raised[1].type = "ValueError"
            /\ \/ base_url = ""
               \/ robots.status = 200 /\ directives /= <<>> /\ JoinRaises(Head(directives))
        /\ disc = "returned" => discover_raised = None

\* The GET of robots.txt failed and discover_sitemaps raised.
C19_Witness ==
    /\ disc = "raised"
    /\ robots.raises /= None
    /\ discover_raised[1].type = "Exception"
    /\ discovered = None

ByDirective(probe) == probe.loop = "directives"
ByCommon(probe) == probe.loop = "common"
Validates(probe) == _validate_sitemap(probe.url) /= None

RECURSIVE UrlsOf(_)
\* The 'url' of each dictionary or request of a list.
UrlsOf(entries) ==
    IF entries = <<>> THEN <<>> ELSE <<Head(entries).url>> \o UrlsOf(Tail(entries))

\* C20: the common locations are probed exactly when no directive gave a
\* valid sitemap (a robots.txt that is not 200 gives none); then all five are
\* probed, in the order of common_paths and after the directives, and those
\* that validate are returned in that order; otherwise none is probed and the
\* directives' valid sitemaps are returned.
C20_CommonIffNoDirective ==
    disc = "returned" =>
        /\ probed = SelectSeq(probed, ByDirective) \o SelectSeq(probed, ByCommon)
        /\ SelectSeq(probed, ByCommon) /= <<>>
            <=> SelectSeq(SelectSeq(probed, ByDirective), Validates) = <<>>
        /\ robots.status /= 200 => SelectSeq(probed, ByDirective) = <<>>
        /\ SelectSeq(probed, ByCommon) /= <<>> =>
            /\ UrlsOf(SelectSeq(probed, ByCommon))
                    = [n \in 1..Len(common_paths) |-> "https://example.com" \o common_paths[n]]
            /\ UrlsOf(discovered[1]) = UrlsOf(SelectSeq(SelectSeq(probed, ByCommon), Validates))
        /\ SelectSeq(probed, ByCommon) = <<>> =>
            UrlsOf(discovered[1]) = UrlsOf(SelectSeq(SelectSeq(probed, ByDirective), Validates))

\* A directive's sitemap did not validate, the five locations were probed and
\* two of them were returned.
C20_Witness ==
    /\ disc = "returned"
    /\ SelectSeq(probed, ByDirective) /= <<>>
    /\ Len(SelectSeq(probed, ByCommon)) = 5
    /\ Len(discovered[1]) = 2

\* The HEAD of the location was answered, with status 200.
HeadIs200(sitemap_url) ==
    HeadAnswer(sitemap_url).raises = None /\ HeadAnswer(sitemap_url).status = 200

\* C21: a location is in the list discover_sitemaps returns exactly when its
\* HEAD was answered with 200; every returned candidate is 'Available'; a
\* location whose HEAD was answered otherwise or raised is left out, after the
\* one HEAD made for each directive and each common location.
C21_ReturnedIffHead200 ==
    disc = "returned" =>
        /\ \A n \in 1..Len(discovered[1]) :
            /\ discovered[1][n].status = "Available"
            /\ HeadIs200(discovered[1][n].url)
            /\ \E k \in 1..Len(probed) : probed[k].url = discovered[1][n].url
        /\ \A k \in 1..Len(probed) :
            HeadIs200(probed[k].url)
                <=> \E n \in 1..Len(discovered[1]) : discovered[1][n].url = probed[k].url
        /\ Len(SelectSeq(probed, ByDirective))
                = IF robots.status = 200 THEN Len(findall(robots.text)) ELSE 0
        /\ Len(SelectSeq(probed, ByCommon)) \in {0, Len(common_paths)}

\* A HEAD timed out, another was answered with 404, a third with 200: only
\* the third location was returned.
C21_Witness ==
    /\ disc = "returned"
    /\ Len(discovered[1]) = 1
    /\ \E k \in 1..Len(probed) : HeadAnswer(probed[k].url).raises /= None
    /\ \E k \in 1..Len(probed) :
        HeadAnswer(probed[k].url).raises = None /\ HeadAnswer(probed[k].url).status = 404

\* The format the rules as stated give: the index needs the suffix .xml.
StatedType(url, content_type) ==
    IF endswith(lower(url), ".xml") /\ HasPart(lower(url), "index") THEN "XML Index"
    ELSE IF endswith(lower(url), ".xml") \/ HasPart(content_type, "xml") THEN "XML Sitemap"
    ELSE IF HasPart(content_type, "text") \/ endswith(lower(url), ".txt") THEN "Text Sitemap"
    ELSE IF endswith(lower(url), ".gz") THEN "Compressed Sitemap"
    ELSE IF HasPart(content_type, "json") \/ endswith(lower(url), ".json") THEN "JSON Sitemap"
    ELSE "Unknown Format"

\* C22: the format of every returned candidate is the one the stated rules
\* give for its URL and content type.
C22_TypeAsStated ==
    disc = "returned" =>
        \A n \in 1..Len(discovered[1]) :
            discovered[1][n].type
                = StatedType(discovered[1][n].url, discovered[1][n].content_type)

IsXml(c) == HasPart(c.content_type, "xml") \/ endswith(lower(c.url), ".xml")
IsText(c) == HasPart(c.content_type, "text") \/ endswith(lower(c.url), ".txt")
IsGz(c) == endswith(lower(c.url), ".gz")
IsJson(c) == HasPart(c.content_type, "json") \/ endswith(lower(c.url), ".json")

\* C22, amended: a candidate whose URL ends in .xml or whose content type
\* contains "xml" is an XML Index when its URL contains "index" and an XML
\* Sitemap otherwise; the other formats follow in the stated order.
C22_TypeByRules ==
    disc = "returned" =>
        \A n \in 1..Len(discovered[1]) :
            /\ discovered[1][n].type = "XML Index"
                <=> IsXml(discovered[1][n]) /\ HasPart(lower(discovered[1][n].url), "index")
            /\ discovered[1][n].type = "XML Sitemap"
                <=> IsXml(discovered[1][n]) /\ ~HasPart(lower(discovered[1][n].url), "index")
            /\ discovered[1][n].type = "Text Sitemap"
                <=> ~IsXml(discovered[1][n]) /\ IsText(discovered[1][n])
            /\ discovered[1][n].type = "Compressed Sitemap"
                <=> ~IsXml(discovered[1][n]) /\ ~IsText(discovered[1][n]) /\ IsGz(discovered[1][n])
            /\ discovered[1][n].type = "JSON Sitemap"
                <=> /\ ~IsXml(discovered[1][n]) /\ ~IsText(discovered[1][n])
                    /\ ~IsGz(discovered[1][n]) /\ IsJson(discovered[1][n])
            /\ discovered[1][n].type = "Unknown Format"
                <=> /\ ~IsXml(discovered[1][n]) /\ ~IsText(discovered[1][n])
                    /\ ~IsGz(discovered[1][n]) /\ ~IsJson(discovered[1][n])

\* A location without the suffix .xml, with "index" in its URL and an XML
\* content type, was returned as an XML Index.
C22_Witness ==
    /\ disc = "returned"
    /\ \E n \in 1..Len(discovered[1]) :
        /\ discovered[1][n].url = "https://example.com/sitemap_index"
        /\ HasPart(discovered[1][n].content_type, "xml")
        /\ discovered[1][n].type = "XML Index"

\* No two entries of the list have the same URL.
DistinctUrls(entries) ==
    \A m, n \in 1..Len(entries) : entries[m].url = entries[n].url => m = n

\* C23: the list discover_sitemaps returns holds no URL twice.
C23_NoUrlTwice == disc = "returned" => DistinctUrls(discovered[1])

\* C23, as far as it holds: the list holds no URL twice when no URL was
\* named twice by the directives, and never when it comes from the common
\* locations.
C23_NoUrlTwiceUnlessNamedTwice ==
    disc = "returned" =>
        /\ DistinctUrls(probed) => DistinctUrls(discovered[1])
        /\ SelectSeq(probed, ByCommon) /= <<>> => DistinctUrls(discovered[1])

\* Two directives named two locations and both were returned.
C23_Witness ==
    /\ disc = "returned"
    /\ Len(discovered[1]) = 2
    /\ discovered[1][1].url /= discovered[1][2].url
    /\ SelectSeq(probed, ByCommon) = <<>>

\* The keys every result dictionary has, and the keys of the stated record.
CommonFields == {"URL", "Canonical URL", "Status", "Error", "Response Time", "HTTP Status"}
StatedFields == CommonFields \cup {"Final URL"}

\* C24: every record process_urls returns has the keys URL, Final URL,
\* Canonical URL, Status, Error, Response Time and HTTP Status.
C24_SameFieldSet ==
    \A n \in 1..Len(results) : DOMAIN results[n] = StatedFields

\* C24, as far as it holds: every record has the six keys other than
\* 'Final URL', and has 'Final URL' exactly when its status is Match or
\* Mismatch.
C24_FinalUrlOnlyWhenCompared ==
    \A n \in 1..Len(results) :
        /\ CommonFields \subseteq DOMAIN results[n]
        /\ DOMAIN results[n] \subseteq StatedFields
        /\ "Final URL" \in DOMAIN results[n]
            <=> results[n]["Status"] \in {"Match", "Mismatch"}

\* process_urls returned the record of a compared page: it has the key
\* 'Final URL', which the records of the other statuses lack.
C24_Witness ==
    /\ pc = "returned"
    /\ Len(results) = 1
    /\ results[1]["Status"] = "Mismatch"
    /\ DOMAIN results[1] = StatedFields

\* The lines entered by hand that app.extract_urls is to add.
ValidManual ==
    IF url_source \in {"Manual URL List", "Both Methods"}
    THEN {manual_urls[k] : k \in {n \in 1..Len(manual_urls) : validators_url(manual_urls[n])}}
    ELSE {}

\* C25: after a successful extraction step no URL is twice in the extracted
\* list, and the list holds exactly the URLs the selected sitemaps returned
\* and the valid lines entered by hand.
C25_EachUrlOnce ==
    app = "done" =>
        /\ \A m, n \in 1..Len(extracted_urls) :
            extracted_urls[m] = extracted_urls[n] => m = n
        /\ Range(extracted_urls)
            = UNION {Range(returned[n]) : n \in 1..Len(returned)} \cup ValidManual

\* A URL that two selected sitemaps hold, one of them twice, was also entered
\* by hand, next to a line that is no URL: it was extracted once.
C25_Witness ==
    /\ app = "done"
    /\ url_source = "Both Methods"
    /\ Len(returned) = 2
    /\ \E u \in Range(manual_urls) :
        /\ u \in Range(returned[1])
        /\ Cardinality({n \in 1..Len(returned[2]) : returned[2][n] = u}) = 2
        /\ Cardinality({n \in 1..Len(extracted_urls) : extracted_urls[n] = u}) = 1
    /\ \E u \in Range(manual_urls) : u \notin Range(extracted_urls)

\* C26: never more than concurrent_requests tasks are running or sleeping; a
\* task that runs keeps its worker through its sleeps and further attempts
\* until it is done and is never queued again; a task starts a get only while
\* it runs, one at a time, and a finished task makes none.
C26_SlotHeld ==
    [][ /\ Cardinality(Active') <= concurrent_requests
        /\ \A k \in Futures :
            /\ k \in Active => task'[k].state \in {"running", "sleeping", "done"}
            /\ task[k].state = "done" => task'[k] = task[k]
            /\ task'[k].state = "pending" => task'[k].trace = <<>>
            /\ Gets(task'[k].trace) /= Gets(task[k].trace) =>
                /\ task[k].state = "running"
                /\ Gets(task'[k].trace) = Gets(task[k].trace) + 1
      ]_vars

\* The only worker sleeps between two attempts at the first URL while the
\* second URL waits in the queue.
C26_Witness ==
    /\ concurrent_requests = 1
    /\ Len(urls) = 2
    /\ task[1].state = "sleeping"
    /\ task[2].state = "pending"

\* The record of future k by what its own gets did and by the configuration:
\* the exception that escaped, the response received, or the last of the
\* transport failures.
OwnRecord(k) ==
    IF task[k].exception /= None
    THEN Record(urls[k], None, "Error",
                Some("Processing failed: " \o task[k].exception[1]), None, None)
    ELSE IF task[k].response /= None
    THEN IF task[k].response[1].status_code = 200
         THEN _analyze_canonical_tag(urls[k], task[k].response[1],
                                     Len(task[k].failures))
         ELSE Record(urls[k], None, "Error",
                     Some("HTTP " \o ToString(task[k].response[1].status_code)),
                     Some(Len(task[k].failures)),
                     Some(task[k].response[1].status_code))
    ELSE Record(urls[k], None, "Error",
                Some("Request failed: " \o task[k].failures[Len(task[k].failures)]),
                Some(Len(task[k].failures) - 1), None)

\* C27: the records are those of the futures collected, one each, and the
\* record of a future is given by that future's own gets and the
\* configuration, whatever the other futures did and in whatever order they
\* completed; process_urls returns only when every future was collected.
C27_OwnOutcomesOnly ==
    /\ \E f \in [1..Len(results) -> Futures] :
        /\ \A m, n \in 1..Len(results) : f[m] = f[n] => m = n
        /\ {f[n] : n \in 1..Len(results)} = yielded
        /\ \A n \in 1..Len(results) : results[n] = OwnRecord(f[n])
    /\ pc = "returned" => yielded = Futures

\* The first URL's worker raised and the second URL's record was collected
\* first: it is the record of its own response all the same.
C27_Witness ==
    /\ pc = "returned"
    /\ Len(urls) = 2
    /\ urls[1] /= urls[2]
    /\ task[1].exception /= None
    /\ results[1]["URL"] = urls[2]
    /\ results[1]["Status"] = "Missing"
    /\ results[2]["Error"] = Some("Processing failed: unexpected")

\* The analysis of the 200 response of task k raises: the parser does, or
\* resolving and normalising the single href does.
AnalysisRaises(k) ==
    /\ task[k].response /= None
    /\ task[k].response[1].status_code = 200
    /\ \/ task[k].response[1].content.parse_error /= None
       \/ k \in OneHref /\ ComparisonRaises(k) /= None

\* C28: a task whose canonical analysis raises is done with a record of
\* status Error whose detail begins "HTML parsing failed:", with the HTTP
\* status and the response time of the fetch; the get that returned the
\* response is its last, no exception is set on the future, and process_urls
\* returns that one record.
C28_AnalysisErrorRecorded ==
    \A k \in Futures :
        AnalysisRaises(k) =>
            /\ task[k].state = "done"
            /\ task[k].exception = None
            /\ task[k].result /= None
            /\ task[k].result[1]["Status"] = "Error"
            /\ Prefix(task[k].result[1]["Error"][1], 20) = "HTML parsing failed:"
            /\ task[k].result[1]["HTTP Status"] = Some(200)
            /\ task[k].result[1]["Response Time"] = Some(task[k].elapsed)
            /\ task[k].result[1]["Canonical URL"] = None
            /\ EndsWithResponse(task[k].trace)
            /\ pc = "returned" =>
                {n \in 1..Len(results) : results[n]["URL"] = urls[k]}
                    = {n \in 1..Len(results) : results[n] = task[k].result[1]}

\* After a timeout and a backoff sleep the page arrived and could not be
\* parsed: one record, Error, with the status 200 and the time slept.
C28_Witness ==
    /\ pc = "returned"
    /\ task[1].trace = <<"get", "RequestException", "sleep", "get", "response">>
    /\ Len(results) = 1
    /\ results[1]["Error"] = Some("HTML parsing failed: malformed markup")
    /\ results[1]["HTTP Status"] = Some(200)
    /\ results[1]["Response Time"] = Some(1)

\* A <loc> text of blanks only.
OnlyBlanks(loc) == loc /= "" /\ strip(loc) = ""

\* The sitemaps of the given kind that have a <loc> of blanks only.
WithBlankLoc(kind) ==
    {u \in DOMAIN sitemaps :
        /\ sitemaps[u].kind = kind
        /\ \E n \in 1..Len(sitemaps[u].locs) : OnlyBlanks(sitemaps[u].locs[n])}

\* No list built or returned holds the empty string.
NoEmptyUrl ==
    /\ \A n \in 1..Len(returned) : "" \notin Range(returned[n])
    /\ \A n \in 1..Len(stack) : "" \notin Range(stack[n].urls)
    /\ "" \notin all_urls
    /\ "" \notin Range(extracted_urls)

\* extract_urls was not called for the empty string.
NoEmptyCall ==
    /\ "" \notin processed_sitemaps
    /\ "" \notin Range(fetched)
    /\ \A n \in 1..Len(stack) : stack[n].url /= ""

\* C29: a <loc> without text or of blanks only is skipped: no list holds the
\* empty string, and extract_urls is not called for it, so that it brings
\* about no request and no error.
C29_BlankLocSkipped == NoEmptyUrl /\ NoEmptyCall

\* C29, as far as it holds: a <loc> without text is skipped.  The empty string
\* enters a list only from a <urlset> with a <loc> of blanks, and extract_urls
\* is called for it only from an index with a <loc> of blanks; a <urlset>
\* without such a <loc> returns the stripped texts of its <loc> elements that
\* have text.
C29_NoTextSkipped ==
    /\ WithBlankLoc("urlset") \cap Range(fetched) = {} => NoEmptyUrl
    /\ WithBlankLoc("sitemapindex") \cap Range(fetched) = {} => NoEmptyCall
    /\ \A n \in 1..Len(returned) :
        Answer(selected_sitemaps[n]).kind = "urlset" =>
            \/ returned[n] = <<>>
            \/ Len(returned[n])
                = Cardinality({p \in 1..Len(Answer(selected_sitemaps[n]).locs) :
                                   Answer(selected_sitemaps[n]).locs[p] /= ""})

\* An index and a leaf, each with a <loc> without text, were expanded: the
\* leaf gave its two URLs, and no request was made for the empty string.
C29_Witness ==
    /\ app = "done"
    /\ selected_sitemaps = <<IndexUrl>>
    /\ sitemaps[IndexUrl].locs = <<PostsUrl, NoText, PagesUrl>>
    /\ sitemaps[PostsUrl].locs = <<"https://example.com/a", NoText, "https://example.com/b">>
    /\ returned = <<<<"https://example.com/a", "https://example.com/b">> \o Five>>
    /\ fetched = <<IndexUrl, PostsUrl, PagesUrl>>

\* The format the stated priority gives the response.
StatedFormat ==
    IF \/ HasPart(document.content_type, "xml")
       \/ Prefix(document.content.text, 5) = "<?xml"
       \/ HasPart(Prefix(document.content.text, 200), "<urlset")
       \/ HasPart(Prefix(document.content.text, 200), "<sitemapindex")
    THEN "xml"
    ELSE IF HasPart(document.content_type, "text/plain") THEN "text"
    ELSE IF HasPart(document.content_type, "json") THEN "json"
    ELSE "auto"

\* The outcomes of the three parsers on the response's content.
ByXml == _parse_xml_sitemap(document.content)
ByText == _parse_text_sitemap(document.content)
ByJson == _parse_json_sitemap(document.content)

\* "<" is among the first 100 characters of the content.
LooksLikeMarkup == HasPart(Prefix(document.content.text, 100), "<")

\* C30: the format follows the stated priority, and auto-detection tries the
\* XML parser, then the text parser, then the JSON parser, each only when
\* the one before failed: it returns the list of the first of the three that
\* succeeds, the empty list when none does, and raises nothing.
C30_XmlThenTextThenJson ==
    chosen /= None =>
        /\ chosen[1].format = StatedFormat
        /\ chosen[1].format = "auto" =>
            /\ chosen[1].raises = None
            /\ chosen[1].urls =
                    IF ByXml.raises = None THEN ByXml.urls
                    ELSE IF ByText.raises = None THEN ByText.urls
                    ELSE ByJson.urls

\* C30, amended: the format follows the stated priority and that format's
\* parser alone is used; auto-detection tries the XML parser only when "<"
\* is among the first 100 characters, then the text parser when the XML
\* parser was not tried or failed; the text parser does not fail, so the
\* JSON parser is never tried and nothing is raised.
C30_XmlOnlyForMarkup ==
    chosen /= None =>
        /\ chosen[1].format = StatedFormat
        /\ chosen[1].format /= "auto" => chosen[1].tried = <<chosen[1].format>>
        /\ chosen[1].format = "auto" =>
            /\ chosen[1].raises = None
            /\ chosen[1].tried =
                    IF ~LooksLikeMarkup THEN <<"text">>
                    ELSE IF ByXml.raises = None THEN <<"xml">>
                    ELSE <<"xml", "text">>
            /\ chosen[1].urls =
                    IF LooksLikeMarkup /\ ByXml.raises = None THEN ByXml.urls
                    ELSE ByText.urls

\* A <urlset> after 200 blanks, of unknown content type: the XML parser,
\* which reads it, was not tried, and the text parser returned no URL.
C30_Witness ==
    /\ chosen /= None
    /\ document.content_type = "application/octet-stream"
    /\ ByXml = Parsed(<<"https://example.com/a">>)
    /\ chosen[1].format = "auto"
    /\ chosen[1].tried = <<"text">>
    /\ chosen[1].urls = <<>>

\* The get_sitemap_info call numbered k reached its call of extract_urls.
Extracted(k) == infos[k].status_code = Number(200)

\* extract_urls is about to be called, by get_sitemap_info, with a URL it was
\* called with in an earlier get_sitemap_info call on this parser.
CalledAgain ==
    /\ app = "try"
    /\ stack = <<>>
    /\ raised = None
    /\ \E j \in 1..(sel - 1) : selected_sitemaps[j] = selected_sitemaps[sel] /\ Extracted(j)

\* C31: processed_sitemaps only grows, and keeps a URL whose fetch or parse
\* failed: every URL handed to requests.get stays in it.  Hence a second
\* extract_urls(u) on the same parser, whether the first failed or returned
\* URLs, returns the empty list at once: no exception, no request.
C31_ProcessedOnlyGrows ==
    /\ [](\A n \in 1..Len(fetched) : fetched[n] \in processed_sitemaps)
    /\ [][/\ processed_sitemaps \subseteq processed_sitemaps'
          /\ CalledAgain =>
                /\ fetched' = fetched
                /\ raised' = None
                /\ stack' = <<>>
                /\ infos' = Append(infos, Info(selected_sitemaps[sel], Number(200), Number(0)))]_vars

\* The client asked twice about a sitemap: the first extract_urls raised, the
\* second returned the empty list.
C31_Witness ==
    \E j, k \in 1..Len(infos) :
        /\ j < k
        /\ infos[j].url = infos[k].url
        /\ infos[j].url_count = Text("Error")
        /\ infos[k].url_count = Number(0)

RECURSIVE Reachable(_)
\* The sitemaps reachable from those of S through the entries of sitemap indexes.
Reachable(S) ==
    LET more == S \cup {v \in SitemapUrls : \E u \in S : Lists(u, v)}
    IN  IF more = S THEN S ELSE Reachable(more)

\* The <loc> texts of the <urlset> documents reachable from the sitemaps of S.
LeafUrls(S) ==
    UNION {Range(Answer(u).locs) : u \in {v \in Reachable(S) : Answer(v).kind = "urlset"}}

\* No sitemap reachable from the selected ones fails.
NothingFails == \A u \in Reachable(Range(selected_sitemaps)) : ~Fails(u)

\* C32: when no fetch or parse fails, the URLs the extraction step stores,
\* as a set, are the leaf URLs reachable from the selected sitemaps: a function
\* of the set of selected sitemaps, so the same in whatever order they are
\* processed.  A selected sitemap that an earlier selected index reaches
\* contributes the empty list.
C32_ReachableLeaves ==
    (app = "done" /\ NothingFails) =>
        /\ all_urls = LeafUrls(Range(selected_sitemaps))
        /\ Range(extracted_urls) = LeafUrls(Range(selected_sitemaps))
        /\ \A n \in 1..Len(selected_sitemaps) :
              selected_sitemaps[n] \in Reachable({selected_sitemaps[m] : m \in 1..(n - 1)})
                  => returned[n] = <<>>

\* The index, selected first, lists the posts sitemap, selected second: the
\* second call returned nothing and the set is that of the leaves.
C32_Witness ==
    /\ app = "done"
    /\ NothingFails
    /\ selected_sitemaps = <<IndexUrl, PostsUrl>>
    /\ Answer(IndexUrl) = SitemapIndex(<<PostsUrl, PagesUrl>>)
    /\ Answer(PostsUrl) = UrlSet(Three)
    /\ Answer(PagesUrl) = UrlSet(FiveOverlap)
    /\ returned[2] = <<>>
    /\ Range(extracted_urls) = Range(Three) \cup Range(FiveOverlap)

\* A step of one worker: the state of one task changes, the caller's does not.
WorkerStep ==
    /\ \E k \in Futures : \A j \in Futures \ {k} : task'[j] = task[j]
    /\ UNCHANGED <<results, i, yielded, cur, calls, pc>>

\* The caller appends the record of one finished future it had not collected.
CallerAppends ==
    /\ task' = task
    /\ Len(results') = Len(results) + 1
    /\ SubSeq(results', 1, Len(results)) = results
    /\ i' = Len(results)
    /\ \E k \in Futures \ yielded :
        /\ task[k].state = "done"
        /\ yielded' = yielded \cup {k}
        /\ RecordUrl(results'[Len(results')]) = urls[k]

C34_ListKeptOnFailure ==
    [][/\ extracted_urls' /= extracted_urls => (raised = None /\ app' = "done")
       /\ app' = "except" =>
            /\ extracted_urls' = extracted_urls
            /\ all_urls' = all_urls]_vars

\* The first selected sitemap gave URLs, the second failed: the session holds
\* the earlier list, and the URLs of the first are in the local set only.
C34_Witness ==
    /\ app = "except"
    /\ extracted_urls = <<"https://example.com/earlier">>
    /\ Len(returned) = 1
    /\ all_urls /= {}
    /\ all_urls \cap Range(extracted_urls) = {}
    /\ Len(st_error) = 1

\* The record process_urls builds for a future whose task raised e.
ProcessingFailed(url, e) ==
    Record(url, None, "Error", Some("Processing failed: " \o e), None, None)

\* C35: the attempt loop catches transport exceptions only.  A finished task
\* has either returned a record, never nothing, or let an exception escape.
\* The exception is no transport exception and was raised by the task's last
\* get: no sleep and no get follow it.  For each
\* such future collected, results holds one record with status Error and the
\* detail "Processing failed: " and the exception's message.
C35_RecordOrEscape ==
    \A k \in Futures :
        /\ \A n \in 1..Len(task[k].failures) : task[k].failures[n] \in web.failures
        /\ task[k].state = "done" =>
            /\ task[k].exception = None =>
                /\ task[k].result /= None
                /\ DOMAIN task[k].result[1] /= {}
                /\ task[k].result[1]["URL"] = urls[k]
            /\ task[k].exception /= None =>
                /\ task[k].result = None
                /\ task[k].exception[1] \in web.errors
                /\ SubSeq(task[k].trace, Len(task[k].trace) - 1, Len(task[k].trace))
                        = <<"get", "Exception">>
                /\ Gets(task[k].trace) = Len(task[k].failures) + 1
                /\ k \in yielded =>
                    Cardinality({n \in 1..Len(results) :
                                    results[n] = ProcessingFailed(urls[k], task[k].exception[1])})
                        = Cardinality({j \in yielded :
                                          /\ urls[j] = urls[k]
                                          /\ task[j].exception = task[k].exception})

\* Two attempts allowed: the first timed out, the second raised another
\* exception, which ended the task; its record says so.
C35_Witness ==
    /\ max_retries = 2
    /\ Len(urls) >= 1
    /\ task[1].trace = <<"get", "RequestException", "sleep", "get", "Exception">>
    /\ 1 \in yielded
    /\ \E n \in 1..Len(results) : results[n] = ProcessingFailed(urls[1], "unexpected")

\* An exception is on its way up: the step taken pops the innermost index
\* without a fetch, without a return and without a change to the URLs held
\* by the app or to processed_sitemaps, until the app handles the exception.
Unwinds ==
    /\ UNCHANGED <<fetched, processed_sitemaps, returned, all_urls, extracted_urls>>
    /\ IF stack = <<>>
       THEN app' = "except" /\ stack' = <<>>
       ELSE stack' = Popped /\ raised' /= None /\ app' = app

====
